---------------------------- MODULE Spec2Model ----------------------------
(***************************************************************************)
(* Runny: the training-plan services (plan generation, week rescheduling,  *)
(* weekly adjustment) and the HTTP handlers that call them, over the       *)
(* SQLite tables goals, training_plans, workouts, run_logs and             *)
(* weekly_adjustments.                                                     *)
(*                                                                         *)
(* Modelling conventions                                                   *)
(*  - A table is a set of rows (records); AUTOINCREMENT ids come from the  *)
(*    counters in nextId and are never reused.  A SELECT without ORDER BY  *)
(*    returns rows in rowid order.                                         *)
(*  - A calendar date 'yyyy-MM-dd' is the number of days since a fixed     *)
(*    Monday (day 0); string comparison of ISO dates is integer order.     *)
(*  - A JavaScript number that is not an integer is an exact rational      *)
(*    <<n, d>> in lowest terms (d > 0); Math.round rounds half up.  The    *)
(*    IEEE-754 rounding error of the source's doubles is not modelled.     *)
(*  - One athlete (user_id) is modelled; every query's user_id filter is   *)
(*    therefore always satisfied.                                          *)
(***************************************************************************)
EXTENDS Integers, Sequences, FiniteSets, TLC

VARIABLES
    goals,        \* table goals
    plans,        \* table training_plans
    workouts,     \* table workouts
    runLogs,      \* table run_logs
    adjustments,  \* table weekly_adjustments
    nextId,       \* AUTOINCREMENT counters, one per table
    inflight,     \* the requests being handled, each with its handler's position and locals
    today,        \* the server clock's calendar day
    calls,        \* how many steps (requests, service calls, clock ticks) were taken
    last          \* the last call: its name, arguments, the rows it read, its result

vars == <<goals, plans, workouts, runLogs, adjustments, nextId, inflight, today, calls, last>>

(***************************************************************************)
(* Exact rational arithmetic for the source's non-integer numbers.         *)
(***************************************************************************)
Abs(x) == IF x < 0 THEN -x ELSE x

RECURSIVE Gcd(_, _)
Gcd(a, b) == IF b = 0 THEN a ELSE Gcd(b, a % b)

Rat(n, d) == LET g == Gcd(Abs(n), d) IN IF g = 0 THEN <<0, 1>> ELSE <<n \div g, d \div g>>

RatInt(i) == <<i, 1>>

\* a * b, cross-reduced first so that no intermediate exceeds the result.
RatMul(a, b) ==
    LET g1 == Gcd(Abs(a[1]), b[2])
        g2 == Gcd(Abs(b[1]), a[2])
    IN  <<(a[1] \div g1) * (b[1] \div g2), (a[2] \div g2) * (b[2] \div g1)>>

RatAdd(a, b) ==
    LET g == Gcd(a[2], b[2])
    IN  Rat(a[1] * (b[2] \div g) + b[1] * (a[2] \div g), (a[2] \div g) * b[2])

RatSub(a, b) == RatAdd(a, <<-b[1], b[2]>>)

\* a <= b for a, b >= 0, by continued-fraction descent (no cross products).
RECURSIVE RatLeqNN(_, _)
RatLeqNN(a, b) ==
    LET ia == a[1] \div a[2]
        ib == b[1] \div b[2]
        ra == a[1] % a[2]
        rb == b[1] % b[2]
    IN  IF ia # ib THEN ia < ib
        ELSE IF ra = 0 THEN TRUE
        ELSE IF rb = 0 THEN FALSE
        ELSE RatLeqNN(<<b[2], rb>>, <<a[2], ra>>)

RatLeq(a, b) ==
    IF a[1] < 0 /\ b[1] >= 0 THEN TRUE
    ELSE IF a[1] >= 0 /\ b[1] < 0 THEN FALSE
    ELSE IF a[1] < 0 THEN RatLeqNN(<<-b[1], b[2]>>, <<-a[1], a[2]>>)
    ELSE RatLeqNN(a, b)

\* Math.min(a, b)
RatMin(a, b) == IF RatLeq(a, b) THEN a ELSE b

\* Math.round(r * p / q) for r >= 0 and integers p >= 0, q > 0:
\* floor((2*p*r + q) / (2*q)), split at r's integer part.
RoundMul(r, p, q) ==
    LET i  == r[1] \div r[2]
        rn == r[1] % r[2]
        t  == 2 * p * i + q
        b  == t \div (2 * q)
        c  == t % (2 * q)
    IN  b + ((c * r[2] + 2 * p * rn) \div (2 * q * r[2]))

Max(a, b) == IF a >= b THEN a ELSE b
Min2(a, b) == IF a <= b THEN a ELSE b

(***************************************************************************)
(* services/trainingPlan.ts: configuration tables                          *)
(***************************************************************************)
RaceDistances == {"5k", "10k", "half", "marathon"}
ExperienceLevels == {"beginner", "intermediate", "advanced"}

\* RACE_CONFIGS[distance].peakWeeklyMinutes, with the `|| RACE_CONFIGS['5k']` fallback
RACE_CONFIGS(distance) ==
    CASE distance = "5k"       -> [baseWeeks |-> 8,  peakLongRun |-> 45,  peakWeeklyMinutes |-> 150]
      [] distance = "10k"      -> [baseWeeks |-> 10, peakLongRun |-> 60,  peakWeeklyMinutes |-> 200]
      [] distance = "half"     -> [baseWeeks |-> 12, peakLongRun |-> 90,  peakWeeklyMinutes |-> 280]
      [] distance = "marathon" -> [baseWeeks |-> 16, peakLongRun |-> 150, peakWeeklyMinutes |-> 360]
      [] OTHER                 -> [baseWeeks |-> 8,  peakLongRun |-> 45,  peakWeeklyMinutes |-> 150]

\* EXPERIENCE_MULTIPLIERS[level], with the `|| 1.0` fallback
EXPERIENCE_MULTIPLIERS(level) ==
    CASE level = "beginner"     -> <<7, 10>>
      [] level = "intermediate" -> <<1, 1>>
      [] level = "advanced"     -> <<13, 10>>
      [] OTHER                  -> <<1, 1>>

\* Math.floor(totalWeeks * 0.6) and Math.floor(totalWeeks * 0.85)
BuildPhaseEnd(totalWeeks) == (3 * totalWeeks) \div 5
PeakPhaseEnd(totalWeeks) == (17 * totalWeeks) \div 20

\* The phase formula of calculateWeeklyVolume, before the 10% limit.
BaseVolume(weekNumber, totalWeeks, raceConfig, experienceMultiplier, currentFrequency, longestRecentRun) ==
    LET buildPhaseEnd == BuildPhaseEnd(totalWeeks)
        peakPhaseEnd  == PeakPhaseEnd(totalWeeks)
        peak == raceConfig.peakWeeklyMinutes
        baseVolume ==
            IF weekNumber <= buildPhaseEnd THEN
                LET progress    == Rat(weekNumber, buildPhaseEnd)
                    startVolume == Max(currentFrequency * 30, longestRecentRun * 2)
                IN  RatAdd(RatInt(startVolume),
                           RatMul(RatSub(Rat(peak * 7, 10), RatInt(startVolume)), progress))
            ELSE IF weekNumber <= peakPhaseEnd THEN
                LET progress == Rat(weekNumber - buildPhaseEnd, peakPhaseEnd - buildPhaseEnd)
                IN  RatMul(RatInt(peak), RatAdd(<<7, 10>>, RatMul(<<3, 10>>, progress)))
            ELSE
                LET weeksToRace == totalWeeks - weekNumber
                    taperMultiplier ==
                        RatAdd(<<2, 5>>, RatMul(Rat(weeksToRace, totalWeeks - peakPhaseEnd), <<2, 5>>))
                IN  RatMul(RatInt(peak), taperMultiplier)
    IN  RatMul(baseVolume, experienceMultiplier)

\* a limit of 20% in place of 10%
WeeklyIncreaseLimitTwenty(previousWeekVolume) == RatMul(previousWeekVolume, <<6, 5>>)

\* previousWeekVolume * 1.1
WeeklyIncreaseLimit(previousWeekVolume) == RatMul(previousWeekVolume, <<11, 10>>)

RECURSIVE calculateWeeklyVolume(_, _, _, _, _, _)
calculateWeeklyVolume(weekNumber, totalWeeks, raceConfig, experienceMultiplier, currentFrequency, longestRecentRun) ==
    LET baseVolume == BaseVolume(weekNumber, totalWeeks, raceConfig, experienceMultiplier,
                                 currentFrequency, longestRecentRun)
        previousWeekVolume ==
            IF weekNumber > 1
            THEN calculateWeeklyVolume(weekNumber - 1, totalWeeks, raceConfig,
                                       experienceMultiplier, currentFrequency, longestRecentRun)
            ELSE RatInt(currentFrequency * 30)
    IN  RatMin(baseVolume, WeeklyIncreaseLimit(previousWeekVolume))

(***************************************************************************)
(* Weekdays.  DAY_MAP numbers them as JavaScript's getDay does (0 = Sunday) *)
(* and the week starts on Monday (weekStartsOn: 1).                         *)
(***************************************************************************)
\* JavaScript's undefined where a number is expected (no day number is negative)
Undefined == -1

\* String.prototype.toLowerCase on the day names a request may carry
toLowerCase(s) ==
    CASE s = "Sunday"    -> "sunday"
      [] s = "Monday"    -> "monday"
      [] s = "Tuesday"   -> "tuesday"
      [] s = "Wednesday" -> "wednesday"
      [] s = "Thursday"  -> "thursday"
      [] s = "Friday"    -> "friday"
      [] s = "Saturday"  -> "saturday"
      [] OTHER           -> s

DAY_MAP(name) ==
    CASE name = "sunday"    -> 0
      [] name = "monday"    -> 1
      [] name = "tuesday"   -> 2
      [] name = "wednesday" -> 3
      [] name = "thursday"  -> 4
      [] name = "friday"    -> 5
      [] name = "saturday"  -> 6
      [] OTHER              -> Undefined

\* availableDays.map(d => DAY_MAP[d.toLowerCase()]).filter(d => d !== undefined)
DayNumbers(availableDays) ==
    LET mapped == [i \in 1..Len(availableDays) |-> DAY_MAP(toLowerCase(availableDays[i]))]
        defined(d) == d # Undefined
    IN  SelectSeq(mapped, defined)

\* startOfWeek(date, { weekStartsOn: 1 })
startOfWeek(date) == date - (date % 7)

\* the day offset from weekStart: `day === 0 ? 6 : day - 1`
DayOffset(day) == IF day = 0 THEN 6 ELSE day - 1

\* getDay of a calendar date (0 = Sunday)
getDay(date) == ((date % 7) + 1) % 7

IsWeekendDay(day) == day = 0 \/ day = 6

\* Math.max(...days) over a non-empty array of numbers
MaxOfSeq(days) == CHOOSE m \in {days[i] : i \in 1..Len(days)} : \A i \in 1..Len(days) : days[i] <= m

\* differenceInDays(raceDate, now): full days; raceDate is local midnight and
\* `partial` tells whether now is later than midnight of its day.
differenceInDays(raceDate, now, partial) ==
    IF raceDate > now /\ partial THEN raceDate - now - 1 ELSE raceDate - now

\* differenceInWeeks: differenceInDays / 7 truncated toward zero
differenceInWeeks(raceDate, now, partial) ==
    LET days == differenceInDays(raceDate, now, partial)
    IN  IF days >= 0 THEN days \div 7 ELSE -((-days) \div 7)

(***************************************************************************)
(* getWorkoutTemplates                                                     *)
(***************************************************************************)
EasyTemplate ==
    [type |-> "easy", title |-> "Easy Run", description |-> "conversational pace",
     durationMultiplier |-> <<1, 1>>, intensity |-> "low",
     isKeyWorkout |-> FALSE, isLongRun |-> FALSE, tiredAlternative |-> "rest or walk"]

LongTemplate ==
    [type |-> "long", title |-> "Long Run", description |-> "time on feet",
     durationMultiplier |-> <<3, 2>>, intensity |-> "low",
     isKeyWorkout |-> TRUE, isLongRun |-> TRUE, tiredAlternative |-> "reduce 20-30%"]

TempoTemplate ==
    [type |-> "tempo", title |-> "Tempo Run", description |-> "comfortably hard",
     durationMultiplier |-> <<11, 10>>, intensity |-> "moderate",
     isKeyWorkout |-> TRUE, isLongRun |-> FALSE, tiredAlternative |-> "convert to easy"]

IntervalTemplate ==
    [type |-> "interval", title |-> "Interval Training", description |-> "hard efforts",
     durationMultiplier |-> <<9, 10>>, intensity |-> "high",
     isKeyWorkout |-> TRUE, isLongRun |-> FALSE, tiredAlternative |-> "halve the intervals"]

getWorkoutTemplates(experienceLevel, weekPhase) ==
    LET isAdvanced == experienceLevel = "advanced"
        isBeginner == experienceLevel = "beginner"
    IN  <<EasyTemplate, LongTemplate>>
        \o (IF ~isBeginner THEN <<TempoTemplate>> ELSE <<>>)
        \o (IF isAdvanced \/ (experienceLevel = "intermediate" /\ weekPhase = "peak")
            THEN <<IntervalTemplate>> ELSE <<>>)

(***************************************************************************)
(* generateWeekWorkouts: the rows one week inserts, in insertion order     *)
(* (ids are given at insertion).                                           *)
(***************************************************************************)
WorkoutRow(planId, date, weekNumber, type, template, duration, isKey, isLong) ==
    [plan_id |-> planId, date |-> date, week_number |-> weekNumber,
     workout_type |-> type, title |-> template.title, description |-> template.description,
     duration_minutes |-> duration, intensity |-> template.intensity,
     tired_alternative |-> template.tiredAlternative,
     is_key_workout |-> isKey, is_long_run |-> isLong, completed |-> 0]

\* the last available day, with no preference for the weekend
LongRunDayLastOnly(dayNumbers) == MaxOfSeq(dayNumbers)

\* weekendDays.length > 0 ? Math.max(...weekendDays) : Math.max(...dayNumbers)
LongRunDay(dayNumbers) ==
    LET weekendDays == SelectSeq(dayNumbers, IsWeekendDay)
    IN  IF Len(weekendDays) > 0 THEN MaxOfSeq(weekendDays) ELSE MaxOfSeq(dayNumbers)

\* Math.abs(d - longRunDay) > 1 && Math.abs(d - longRunDay) !== 6
\* adjacency without the week wrap
NotAdjacentNoWrap(d, longRunDay) == Abs(d - longRunDay) > 1

NotAdjacent(d, longRunDay) == Abs(d - longRunDay) > 1 /\ Abs(d - longRunDay) # 6

\* the day for tempo/interval: the middle non-adjacent candidate, else the
\* first day that is not the long-run day, else undefined
KeyWorkoutDay(dayNumbers, longRunDay) ==
    LET isCandidate(d) == d # longRunDay /\ NotAdjacent(d, longRunDay)
        keyWorkoutCandidates == SelectSeq(dayNumbers, isCandidate)
        notLong(d) == d # longRunDay
        others == SelectSeq(dayNumbers, notLong)
    IN  IF Len(keyWorkoutCandidates) > 0
        THEN keyWorkoutCandidates[(Len(keyWorkoutCandidates) \div 2) + 1]
        ELSE IF Len(others) > 0 THEN others[1] ELSE Undefined

\* every day given the weekend ceiling
MaxTimeForWeekend(day, maxWeekdayTime, maxWeekendTime) == maxWeekendTime

\* day === 0 || day === 6 ? maxWeekendTime : maxWeekdayTime
MaxTimeFor(day, maxWeekdayTime, maxWeekendTime) ==
    IF IsWeekendDay(day) THEN maxWeekendTime ELSE maxWeekdayTime

\* templates.find(t => t.type === 'tempo' || t.type === 'interval') || templates[0]
KeyTemplate(templates) ==
    LET isHard(t) == t.type = "tempo" \/ t.type = "interval"
        hard == SelectSeq(templates, isHard)
    IN  IF Len(hard) > 0 THEN hard[1] ELSE templates[1]

\* keyWorkoutDay !== undefined && experienceLevel !== 'beginner'
InsertsKeyWorkout(keyWorkoutDay, experienceLevel) ==
    keyWorkoutDay # Undefined /\ experienceLevel # "beginner"

generateWeekWorkouts(planId, weekNumber, weekStart, availableDays, weeklyVolume, experienceLevel, maxWeekdayTime, maxWeekendTime, phase) ==
    LET templates  == getWorkoutTemplates(experienceLevel, phase)
        dayNumbers == DayNumbers(availableDays)
    IN  IF Len(dayNumbers) = 0 THEN <<>>
        ELSE
        LET longRunDay    == LongRunDay(dayNumbers)
            keyWorkoutDay == KeyWorkoutDay(dayNumbers, longRunDay)
            isLongT(t)    == t.type = "long"
            longRunTemplate == SelectSeq(templates, isLongT)[1]
            longRunDuration ==
                Min2(RoundMul(weeklyVolume, 7, 20),
                     MaxTimeFor(longRunDay, maxWeekdayTime, maxWeekendTime))
            remainingVolume == RatSub(weeklyVolume, RatInt(longRunDuration))
            isEasyDay(d)  == d # longRunDay /\ d # keyWorkoutDay
            easyDays      == SelectSeq(dayNumbers, isEasyDay)
            longRow == WorkoutRow(planId, weekStart + DayOffset(longRunDay), weekNumber,
                                  "long", longRunTemplate, longRunDuration, 1, 1)
            hasKey  == InsertsKeyWorkout(keyWorkoutDay, experienceLevel)
            keyTemplate == KeyTemplate(templates)
            keyWorkoutDuration ==
                Min2(RoundMul(remainingVolume, 3, 10),
                     MaxTimeFor(keyWorkoutDay, maxWeekdayTime, maxWeekendTime))
            keyRows ==
                IF hasKey
                THEN <<WorkoutRow(planId, weekStart + DayOffset(keyWorkoutDay), weekNumber,
                                  keyTemplate.type, keyTemplate, keyWorkoutDuration, 1, 0)>>
                ELSE <<>>
            remainingAfterKey ==
                IF hasKey THEN RatSub(remainingVolume, RatInt(keyWorkoutDuration))
                ELSE remainingVolume
            isEasyT(t)    == t.type = "easy"
            easyTemplate  == SelectSeq(templates, isEasyT)[1]
            easyRunCount  == Len(easyDays)
            easyRunDuration == RoundMul(remainingAfterKey, 1, easyRunCount)
            easyRows ==
                [i \in 1..easyRunCount |->
                    WorkoutRow(planId, weekStart + DayOffset(easyDays[i]), weekNumber, "easy",
                               easyTemplate,
                               Min2(easyRunDuration,
                                    MaxTimeFor(easyDays[i], maxWeekdayTime, maxWeekendTime)),
                               0, 0)]
        IN  <<longRow>> \o keyRows \o easyRows

\* week <= totalWeeks * 0.6 ? 'build' : (week <= totalWeeks * 0.85 ? 'peak' : 'taper')
PhaseOf(week, totalWeeks) ==
    IF 5 * week <= 3 * totalWeeks THEN "build"
    ELSE IF 20 * week <= 17 * totalWeeks THEN "peak" ELSE "taper"

\* Math.max(1, differenceInWeeks(raceDate, today))
TotalWeeks(goal, now, partial) == Max(1, differenceInWeeks(goal.race_date, now, partial))

\* the rows of weeks `week`..totalWeeks of generateTrainingPlan's loop
\* every goal planned as an intermediate runner's
TemplateLevelIntermediate(goal) == "intermediate"

\* the experience level generateWeekWorkouts is called with
TemplateLevel(goal) == goal.experience_level

RECURSIVE PlanRows(_, _, _, _, _)
PlanRows(goal, planId, now, totalWeeks, week) ==
    IF week > totalWeeks THEN <<>>
    ELSE
    LET weekStart == startOfWeek(now) + 7 * (week - 1)
        weeklyVolume ==
            calculateWeeklyVolume(week, totalWeeks, RACE_CONFIGS(goal.race_distance),
                                  EXPERIENCE_MULTIPLIERS(goal.experience_level),
                                  goal.current_frequency, goal.longest_recent_run)
    IN  generateWeekWorkouts(planId, week, weekStart, goal.available_days, weeklyVolume,
                             TemplateLevel(goal), goal.max_weekday_time,
                             goal.max_weekend_time, PhaseOf(week, totalWeeks))
        \o PlanRows(goal, planId, now, totalWeeks, week + 1)

\* INSERT each row in order, ids firstId, firstId + 1, ...
WithIds(rows, firstId) ==
    {[id |-> firstId + i - 1] @@ rows[i] : i \in 1..Len(rows)}

(***************************************************************************)
(* The database.  db is the record of the five tables and the id counters; *)
(* a service is an operator from db to db.                                 *)
(***************************************************************************)
\* SQL NULL in run_logs.workout_id (ids start at 1)
NULL == 0

DB ==
    [goals |-> goals, plans |-> plans, workouts |-> workouts, runLogs |-> runLogs,
     adjustments |-> adjustments, nextId |-> nextId]

EmptyDB ==
    [goals |-> {}, plans |-> {}, workouts |-> {}, runLogs |-> {}, adjustments |-> {},
     nextId |-> [goal |-> 1, plan |-> 1, workout |-> 1, log |-> 1, adjustment |-> 1]]

\* rows in rowid order
RECURSIVE SortById(_)
SortById(rows) ==
    IF rows = {} THEN <<>>
    ELSE LET first == CHOOSE r \in rows : \A o \in rows : r.id <= o.id
         IN  <<first>> \o SortById(rows \ {first})

\* the rows deleted and the run logs left as they are
DeleteWorkoutsKeepLinks(db, gone) == [db EXCEPT !.workouts = db.workouts \ gone]

\* DELETE FROM workouts for `gone`; run_logs.workout_id is ON DELETE SET NULL
DeleteWorkouts(db, gone) ==
    LET goneIds == {w.id : w \in gone}
    IN  [db EXCEPT
            !.workouts = db.workouts \ gone,
            !.runLogs  = {IF l.workout_id \in goneIds THEN [l EXCEPT !.workout_id = NULL] ELSE l
                          : l \in db.runLogs}]

\* DELETE FROM training_plans for `gone`; workouts and weekly_adjustments
\* reference plan_id ON DELETE CASCADE
DeletePlans(db, gone) ==
    LET goneIds == {p.id : p \in gone}
        d1 == DeleteWorkouts(db, {w \in db.workouts : w.plan_id \in goneIds})
    IN  [d1 EXCEPT
            !.plans = d1.plans \ gone,
            !.adjustments = {a \in d1.adjustments : a.plan_id \notin goneIds}]

\* INSERT rows into workouts in order
InsertWorkouts(db, rows) ==
    [db EXCEPT
        !.workouts = db.workouts \cup WithIds(rows, db.nextId.workout),
        !.nextId.workout = db.nextId.workout + Len(rows)]

(***************************************************************************)
(* generateTrainingPlan and regeneratePlan                                 *)
(***************************************************************************)
generateTrainingPlan(db, goal, now, partial) ==
    LET totalWeeks == TotalWeeks(goal, now, partial)
        planId == db.nextId.plan
        plan == [id |-> planId, goal_id |-> goal.id, start_date |-> now,
                 end_date |-> goal.race_date]
        d1 == [db EXCEPT !.plans = db.plans \cup {plan}, !.nextId.plan = planId + 1]
    IN  InsertWorkouts(d1, PlanRows(goal, planId, now, totalWeeks, 1))

\* no plan found for the goal
ExistingPlansNone(db, goalId) == <<>>

\* 'SELECT id FROM training_plans WHERE goal_id = ?' .get(): the first row or none
ExistingPlans(db, goalId) == SortById({p \in db.plans : p.goal_id = goalId})

regeneratePlan(db, goalId, now, partial) ==
    LET existing == ExistingPlans(db, goalId)
        d1 == IF Len(existing) > 0
              THEN DeletePlans(DeleteWorkouts(db, {w \in db.workouts : w.plan_id = existing[1].id}),
                               {existing[1]})
              ELSE db
        goal == CHOOSE g \in d1.goals : g.id = goalId
    IN  generateTrainingPlan(d1, goal, now, partial)

(***************************************************************************)
(* rescheduleWeek                                                          *)
(***************************************************************************)
\* SELECT * FROM workouts WHERE plan_id = ? AND week_number = ?
WeekWorkouts(db, planId, weekNumber) ==
    {w \in db.workouts : w.plan_id = planId /\ w.week_number = weekNumber}

\* a re-inserted row that takes its duration from the column default
RescheduledRowNoDuration(w, date, isKey, isLong) ==
    [plan_id |-> w.plan_id, date |-> date, week_number |-> w.week_number,
     workout_type |-> w.workout_type, title |-> w.title, description |-> w.description,
     duration_minutes |-> 0, intensity |-> w.intensity,
     tired_alternative |-> w.tired_alternative,
     is_key_workout |-> isKey, is_long_run |-> isLong, completed |-> 0]

\* the row re-inserted for an existing workout: its content, a new date,
\* the flags as literals, completed at its default 0
\* every re-inserted row flagged as the long run
RescheduledRowAllLong(w, date, isKey, isLong) ==
    [plan_id |-> w.plan_id, date |-> date, week_number |-> w.week_number,
     workout_type |-> w.workout_type, title |-> w.title, description |-> w.description,
     duration_minutes |-> w.duration_minutes, intensity |-> w.intensity,
     tired_alternative |-> w.tired_alternative,
     is_key_workout |-> isKey, is_long_run |-> 1, completed |-> 0]

RescheduledRow(w, date, isKey, isLong) ==
    [plan_id |-> w.plan_id, date |-> date, week_number |-> w.week_number,
     workout_type |-> w.workout_type, title |-> w.title, description |-> w.description,
     duration_minutes |-> w.duration_minutes, intensity |-> w.intensity,
     tired_alternative |-> w.tired_alternative,
     is_key_workout |-> isKey, is_long_run |-> isLong, completed |-> 0]

\* dayNumbers.filter(d => !usedDays.includes(d))
NotUsed(dayNumbers, usedDays) ==
    LET free(d) == d \notin usedDays
    IN  SelectSeq(dayNumbers, free)

\* the key workout's new day: the middle non-adjacent free day, else the first
\* free day, else undefined.  Without a long run usedDays[0] is undefined and
\* every comparison with NaN is false.
RescheduleKeyDay(dayNumbers, usedDaysSeq) ==
    LET availableForKey == NotUsed(dayNumbers, {usedDaysSeq[i] : i \in 1..Len(usedDaysSeq)})
        nonAdj(d) == Len(usedDaysSeq) > 0 /\ NotAdjacent(d, usedDaysSeq[1])
        nonAdjacentDays == SelectSeq(availableForKey, nonAdj)
    IN  IF Len(nonAdjacentDays) > 0
        THEN nonAdjacentDays[(Len(nonAdjacentDays) \div 2) + 1]
        ELSE IF Len(availableForKey) > 0 THEN availableForKey[1] ELSE Undefined

\* one easy run fewer than the days left
EasyToPlaceOneLess(easyRuns, remainingDays) ==
    Min2(Len(easyRuns), Max(Len(remainingDays) - 1, 0))

\* Math.min(easyRuns.length, remainingDays.length)
EasyToPlace(easyRuns, remainingDays) == Min2(Len(easyRuns), Len(remainingDays))

\* the rows rescheduleWeek inserts for the selected week rows `rows` (in rowid order)
RescheduleRows(rows, newAvailableDays) ==
    LET isLong(w) == w.is_long_run = 1
        isKey(w)  == w.is_key_workout = 1 /\ w.is_long_run = 0
        isEasy(w) == w.is_key_workout = 0 /\ w.is_long_run = 0
        longRuns  == SelectSeq(rows, isLong)
        keys      == SelectSeq(rows, isKey)
        easyRuns  == SelectSeq(rows, isEasy)
        weekStart == startOfWeek(rows[1].date)
        dayNumbers == DayNumbers(newAvailableDays)
    IN  IF Len(dayNumbers) = 0 THEN <<>>
        ELSE
        LET longRunDay == LongRunDay(dayNumbers)
            longRows ==
                IF Len(longRuns) > 0
                THEN <<RescheduledRow(longRuns[1], weekStart + DayOffset(longRunDay), 1, 1)>>
                ELSE <<>>
            used1 == IF Len(longRuns) > 0 THEN <<longRunDay>> ELSE <<>>
            keyDay == IF Len(keys) > 0 /\ Len(dayNumbers) > 1
                      THEN RescheduleKeyDay(dayNumbers, used1) ELSE Undefined
            keyRows ==
                IF keyDay # Undefined
                THEN <<RescheduledRow(keys[1], weekStart + DayOffset(keyDay), 1, 0)>>
                ELSE <<>>
            used2 == IF keyDay # Undefined THEN Append(used1, keyDay) ELSE used1
            remainingDays == NotUsed(dayNumbers, {used2[i] : i \in 1..Len(used2)})
            easyToPlace == EasyToPlace(easyRuns, remainingDays)
            easyRows ==
                [i \in 1..easyToPlace |->
                    RescheduledRow(easyRuns[i], weekStart + DayOffset(remainingDays[i]), 0, 0)]
        IN  longRows \o keyRows \o easyRows

\* DELETE FROM workouts WHERE plan_id = ?
RescheduleDeletesWholePlan(db, planId, weekNumber) ==
    {w \in db.workouts : w.plan_id = planId}

\* DELETE FROM workouts WHERE plan_id = ? AND week_number = ?
RescheduleDeletes(db, planId, weekNumber) == WeekWorkouts(db, planId, weekNumber)

rescheduleWeek(db, planId, weekNumber, newAvailableDays) ==
    LET rows == SortById(WeekWorkouts(db, planId, weekNumber))
    IN  IF Len(rows) = 0 THEN db
        ELSE InsertWorkouts(DeleteWorkouts(db, RescheduleDeletes(db, planId, weekNumber)),
                            RescheduleRows(rows, newAvailableDays))

(***************************************************************************)
(* services/autoAdjust: analyzeWeeklyPerformance,                          *)
(* getAdjustmentRecommendation, applyWeeklyAdjustment                      *)
(***************************************************************************)
\* allLogs.reduce((sum, l) => sum + (l[field] || 0), 0) for the three summed fields
RECURSIVE SumLogs(_, _)
SumLogs(logs, field) ==
    IF logs = {} THEN 0
    ELSE LET l == CHOOSE x \in logs : TRUE
             v == CASE field = "effort_level" -> l.effort_level
                    [] field = "pain_level" -> l.pain_level
                    [] OTHER -> l.duration_minutes
         IN  v + SumLogs(logs \ {l}, field)

\* workouts LEFT JOIN run_logs ON w.id = rl.workout_id: one row per (workout, log)
\* pair, and one row with log_completed NULL for a workout without a log
JoinLogs(db, ws) ==
    UNION {{[w |-> x, log_id |-> l.id, log_completed |-> l.completed]
                : l \in {m \in db.runLogs : m.workout_id = x.id}} : x \in ws}
    \cup {[w |-> x, log_id |-> NULL, log_completed |-> NULL]
        : x \in {y \in ws : \A m \in db.runLogs : m.workout_id # y.id}}

HasStats(db, now) ==
    LET weekStart == startOfWeek(now - 7)
    IN  \E w \in db.workouts : w.date >= weekStart /\ w.date <= weekStart + 6

\* WeeklyStats; the two averages are kept as sums over totalRuns logs
analyzeWeeklyPerformance(db, now) ==
    LET weekStart == startOfWeek(now - 7)
        weekEnd   == weekStart + 6
        plannedWorkouts ==
            JoinLogs(db, {w \in db.workouts : w.date >= weekStart /\ w.date <= weekEnd})
        allLogs == {l \in db.runLogs : l.date >= weekStart /\ l.date <= weekEnd}
    IN  [totalRuns |-> Cardinality(allLogs),
         completedRuns |-> Cardinality({r \in plannedWorkouts : r.log_completed = 1}),
         plannedRuns |-> Cardinality(plannedWorkouts),
         effortSum |-> SumLogs(allLogs, "effort_level"),
         painSum |-> SumLogs(allLogs, "pain_level"),
         totalMinutes |-> SumLogs(allLogs, "duration_minutes"),
         missedKeyWorkouts |->
            Cardinality({r \in plannedWorkouts :
                (r.w.is_key_workout = 1 \/ r.w.is_long_run = 1) /\ r.log_completed # 1})]

\* averageX > k in place of averageX >= k
AverageAbove(sum, totalRuns, k) == IF totalRuns > 0 THEN sum > k * totalRuns ELSE 0 > k

\* averageX >= k, where averageX = totalRuns > 0 ? sum / totalRuns : 0
AverageAtLeast(sum, totalRuns, k) == IF totalRuns > 0 THEN sum >= k * totalRuns ELSE 0 >= k

\* completionRate >= num/den, where completionRate = plannedRuns > 0 ? completed / planned : 0
RateAtLeast(stats, num, den) ==
    IF stats.plannedRuns > 0 THEN den * stats.completedRuns >= num * stats.plannedRuns
    ELSE 0 >= num

getAdjustmentRecommendation(stats) ==
    IF AverageAtLeast(stats.painSum, stats.totalRuns, 5)
    THEN [type |-> "reduce", reason |-> "pain elevated",
          volumeMultiplier |-> <<7, 10>>, intensityAdjustment |-> -1]
    ELSE IF ~RateAtLeast(stats, 1, 2)
    THEN [type |-> "reduce", reason |-> "low completion",
          volumeMultiplier |-> <<4, 5>>, intensityAdjustment |-> 0]
    ELSE IF stats.missedKeyWorkouts >= 2
    THEN [type |-> "reduce", reason |-> "missed key workouts",
          volumeMultiplier |-> <<17, 20>>, intensityAdjustment |-> 0]
    ELSE IF AverageAtLeast(stats.effortSum, stats.totalRuns, 8) /\ RateAtLeast(stats, 4, 5)
    THEN [type |-> "maintain", reason |-> "hard but manageable",
          volumeMultiplier |-> <<1, 1>>, intensityAdjustment |-> 0]
    ELSE IF ~AverageAtLeast(stats.effortSum, stats.totalRuns, 6) /\ RateAtLeast(stats, 9, 10)
            /\ ~AverageAtLeast(stats.painSum, stats.totalRuns, 2)
    THEN [type |-> "increase", reason |-> "consistent, low effort",
          volumeMultiplier |-> <<21, 20>>, intensityAdjustment |-> 0]
    ELSE [type |-> "maintain", reason |-> "progressing well",
          volumeMultiplier |-> <<1, 1>>, intensityAdjustment |-> 0]

\* training_plans JOIN goals WHERE g.is_active = 1, in rowid order
ActivePlans(db) ==
    SortById({p \in db.plans : \E g \in db.goals : g.id = p.goal_id /\ g.is_active = 1})

\* SELECT week_number FROM workouts WHERE plan_id = ? ORDER BY date ASC LIMIT 1
CurrentWeekWorkoutsAnyDate(db, planId, weekStart) ==
    LET cand == {w \in db.workouts : w.plan_id = planId}
    IN  {w \in cand : \A o \in cand : w.date <= o.date}

\* SELECT week_number FROM workouts WHERE plan_id = ? AND date >= ? ORDER BY date ASC LIMIT 1
CurrentWeekWorkouts(db, planId, weekStart) ==
    LET cand == {w \in db.workouts : w.plan_id = planId /\ w.date >= weekStart}
    IN  {w \in cand : \A o \in cand : w.date <= o.date}

\* the plan's workouts from weekStart on, completed or not
FutureWorkoutsWithCompleted(db, planId, weekStart) ==
    {w \in db.workouts : w.plan_id = planId /\ w.date >= weekStart}

\* SELECT ... FROM workouts WHERE plan_id = ? AND date >= ? AND completed = 0
FutureWorkouts(db, planId, weekStart) ==
    {w \in db.workouts : w.plan_id = planId /\ w.date >= weekStart /\ w.completed = 0}

\* the key and long-run multiplier without the Math.max(multiplier, 0.85)
EffectiveMultiplierUnclamped(w, recommendation) == recommendation.volumeMultiplier

\* the multiplier a workout is scaled by
EffectiveMultiplier(w, recommendation) ==
    IF (w.is_key_workout = 1 \/ w.is_long_run = 1) /\ recommendation.type = "reduce"
    THEN (IF RatLeq(recommendation.volumeMultiplier, <<17, 20>>) THEN <<17, 20>>
          ELSE recommendation.volumeMultiplier)
    ELSE recommendation.volumeMultiplier

\* a duration left as it is
AdjustedDurationUnchanged(w, recommendation) == w.duration_minutes

\* the durations d < 600 for which d * 0.7 is k + 0.5 exactly while the double
\* product d * 0.7 lies just below it, so that Math.round gives k and not k + 1
\* (45 * 0.7 = 31.499999999999996).  The doubles d * 0.8, d * 0.85 and d * 1.05
\* round as the exact products do for every d < 600.
TiesBelowInDouble == {45, 85, 165, 175, 325, 335, 345, 355, 365}

\* Math.round(w.duration_minutes * multiplier)
AdjustedDuration(w, recommendation) ==
    LET m == EffectiveMultiplier(w, recommendation)
        exact == RoundMul(RatInt(w.duration_minutes), m[1], m[2])
    IN  IF m = <<7, 10>> /\ w.duration_minutes \in TiesBelowInDouble THEN exact - 1 ELSE exact

\* every classification applied, maintain included
AppliesAdjustmentAlways(recommendation) == TRUE

\* recommendation.type !== 'maintain'
AppliesAdjustment(recommendation) == recommendation.type # "maintain"

\* [db |-> the database after the call, applied, adjustment |-> the recommendation or NULL]
applyWeeklyAdjustment(db, now) ==
    IF ~HasStats(db, now) THEN [db |-> db, applied |-> FALSE, type |-> "none"]
    ELSE
    LET recommendation == getAdjustmentRecommendation(analyzeWeeklyPerformance(db, now))
        weekStart == startOfWeek(now)
        active == ActivePlans(db)
    IN  IF ~AppliesAdjustment(recommendation) \/ Len(active) = 0
           \/ CurrentWeekWorkouts(db, active[1].id, weekStart) = {}
        THEN [db |-> db, applied |-> FALSE, type |-> recommendation.type]
        ELSE
        LET plan == active[1]
            currentWorkout == CHOOSE w \in CurrentWeekWorkouts(db, plan.id, weekStart) : TRUE
            isFuture(w) == w \in FutureWorkouts(db, plan.id, weekStart)
            row == [id |-> db.nextId.adjustment, plan_id |-> plan.id,
                    week_number |-> currentWorkout.week_number,
                    adjustment_type |-> recommendation.type, reason |-> recommendation.reason]
        IN  [db |-> [db EXCEPT
                        !.workouts = {IF isFuture(w)
                                      THEN [w EXCEPT !.duration_minutes =
                                                        AdjustedDuration(w, recommendation)]
                                      ELSE w : w \in db.workouts},
                        !.adjustments = db.adjustments \cup {row},
                        !.nextId.adjustment = db.nextId.adjustment + 1],
             applied |-> TRUE, type |-> recommendation.type]

(***************************************************************************)
(* The services statement by statement.  No service opens a transaction:   *)
(* each prepared statement's run() commits on its own, so a call whose     *)
(* write k + 1 throws leaves the database as it is after write k.  Each    *)
(* operator gives the database after each write of a call, in order.       *)
(***************************************************************************)
regeneratePlanWrites(db, goalId, now, partial) ==
    LET existing == ExistingPlans(db, goalId)
        d1 == IF Len(existing) > 0
              THEN DeleteWorkouts(db, {w \in db.workouts : w.plan_id = existing[1].id})
              ELSE db
        d2 == IF Len(existing) > 0 THEN DeletePlans(d1, {existing[1]}) ELSE db
        goal == CHOOSE g \in db.goals : g.id = goalId
        planId == d2.nextId.plan
        plan == [id |-> planId, goal_id |-> goal.id, start_date |-> now,
                 end_date |-> goal.race_date]
        d3 == [d2 EXCEPT !.plans = d2.plans \cup {plan}, !.nextId.plan = planId + 1]
        rows == PlanRows(goal, planId, now, TotalWeeks(goal, now, partial), 1)
    IN  (IF Len(existing) > 0 THEN <<d1, d2>> ELSE <<>>)
        \o <<d3>>
        \o [i \in 1..Len(rows) |-> InsertWorkouts(d3, SubSeq(rows, 1, i))]

rescheduleWeekWrites(db, planId, weekNumber, newAvailableDays) ==
    LET rows == SortById(WeekWorkouts(db, planId, weekNumber))
    IN  IF Len(rows) = 0 THEN <<>>
        ELSE LET d1 == DeleteWorkouts(db, RescheduleDeletes(db, planId, weekNumber))
                 new == RescheduleRows(rows, newAvailableDays)
             IN  <<d1>> \o [i \in 1..Len(new) |-> InsertWorkouts(d1, SubSeq(new, 1, i))]

applyWeeklyAdjustmentWrites(db, now) ==
    IF ~applyWeeklyAdjustment(db, now).applied THEN <<>>
    ELSE
    LET recommendation == getAdjustmentRecommendation(analyzeWeeklyPerformance(db, now))
        plan == ActivePlans(db)[1]
        futureWorkouts == SortById(FutureWorkouts(db, plan.id, startOfWeek(now)))
        updated(i) == {futureWorkouts[j].id : j \in 1..i}
    IN  [i \in 1..Len(futureWorkouts) |->
            [db EXCEPT !.workouts = {IF w.id \in updated(i)
                                     THEN [w EXCEPT !.duration_minutes =
                                                       AdjustedDuration(w, recommendation)]
                                     ELSE w : w \in db.workouts}]]
        \o <<applyWeeklyAdjustment(db, now).db>>

(***************************************************************************)
(* The handlers.  Each action is one whole request (or one service call).  *)
(* A request that fails validation changes nothing and is not an action.   *)
(***************************************************************************)
SetDB(db) ==
    /\ goals' = db.goals
    /\ plans' = db.plans
    /\ workouts' = db.workouts
    /\ runLogs' = db.runLogs
    /\ adjustments' = db.adjustments
    /\ nextId' = db.nextId

\* the goals table left as it is (no goal deactivated)
DeactivateNone(gs) == gs

\* UPDATE goals SET is_active = 0 WHERE user_id = ? AND is_active = 1
Deactivate(gs) == {IF g.is_active = 1 THEN [g EXCEPT !.is_active = 0] ELSE g : g \in gs}

\* POST /goals: input carries the request body; raceIn is the race date's
\* distance from today in days
CreateGoal(input, partial) ==
    /\ Len(input.available_days) >= 2
    /\ input.raceIn > 0
    /\ LET goal == [id |-> nextId.goal,
                    race_distance |-> input.race_distance,
                    race_date |-> today + input.raceIn,
                    experience_level |-> input.experience_level,
                    current_frequency |-> input.current_frequency,
                    longest_recent_run |-> input.longest_recent_run,
                    available_days |-> input.available_days,
                    max_weekday_time |-> input.max_weekday_time,
                    max_weekend_time |-> input.max_weekend_time,
                    is_active |-> 1]
           d1 == [DB EXCEPT
                    !.goals = Deactivate(goals) \cup {goal},
                    !.nextId.goal = nextId.goal + 1]
       IN  /\ SetDB(generateTrainingPlan(d1, goal, today, partial))
           /\ last' = [op |-> "generateTrainingPlan", goalId |-> goal.id,
                       planId |-> nextId.plan, partial |-> partial,
                       totalWeeks |-> TotalWeeks(goal, today, partial), pre |-> DB]
    /\ calls' = calls + 1
    /\ UNCHANGED inflight
    /\ UNCHANGED today

\* PUT /goals/:id: update carries the fields given (fields names them)
UpdateGoal(goalId, update, partial) ==
    /\ \E g \in goals : g.id = goalId
    /\ update.fields # {}
    /\ "available_days" \in update.fields => Len(update.available_days) >= 2
    /\ LET old == CHOOSE g \in goals : g.id = goalId
           new == [old EXCEPT
                     !.available_days = IF "available_days" \in update.fields
                                        THEN update.available_days ELSE @,
                     !.max_weekday_time = IF "max_weekday_time" \in update.fields
                                          THEN update.max_weekday_time ELSE @,
                     !.max_weekend_time = IF "max_weekend_time" \in update.fields
                                          THEN update.max_weekend_time ELSE @]
           d1 == [DB EXCEPT !.goals = (goals \ {old}) \cup {new}]
       IN  /\ SetDB(regeneratePlan(d1, goalId, today, partial))
           /\ last' = [op |-> "regeneratePlan", goalId |-> goalId, planId |-> nextId.plan,
                       partial |-> partial, totalWeeks |-> TotalWeeks(new, today, partial),
                       pre |-> DB]
    /\ calls' = calls + 1
    /\ UNCHANGED inflight
    /\ UNCHANGED today

\* DELETE /goals/:id: training_plans reference goal_id ON DELETE CASCADE
DeleteGoal(goalId) ==
    /\ \E g \in goals : g.id = goalId
    /\ LET d1 == DeletePlans(DB, {p \in plans : p.goal_id = goalId})
       IN  SetDB([d1 EXCEPT !.goals = {g \in goals : g.id # goalId}])
    /\ last' = [op |-> "deleteGoal", goalId |-> goalId, pre |-> DB]
    /\ calls' = calls + 1
    /\ UNCHANGED inflight
    /\ UNCHANGED today

\* what a rescheduleWeek call leaves in `last`
RescheduleRecord(via, planId, weekNumber, newAvailableDays) ==
    [op |-> "rescheduleWeek", via |-> via, planId |-> planId, weekNumber |-> weekNumber,
     newAvailableDays |-> newAvailableDays, pre |-> DB,
     before |-> SortById(WeekWorkouts(DB, planId, weekNumber))]

\* POST /workouts/reschedule-week
RescheduleWeekRoute(availableDays) ==
    /\ Len(availableDays) >= 2
    /\ Len(ActivePlans(DB)) > 0
    /\ LET plan == ActivePlans(DB)[1]
           weekStart == startOfWeek(today)
           current == CurrentWeekWorkouts(DB, plan.id, weekStart)
       IN  \E weekNumber \in {w.week_number : w \in current} :
              LET d1 == rescheduleWeek(DB, plan.id, weekNumber, availableDays)
              IN  /\ SetDB([d1 EXCEPT
                              !.goals = {IF g.id = plan.goal_id
                                         THEN [g EXCEPT !.available_days = availableDays]
                                         ELSE g : g \in d1.goals}])
                  /\ last' = RescheduleRecord("route", plan.id, weekNumber, availableDays)
    /\ calls' = calls + 1
    /\ UNCHANGED inflight
    /\ UNCHANGED today

\* rescheduleWeek(planId, userId, weekNumber, newAvailableDays) called as a service
RescheduleWeekCall(planId, weekNumber, newAvailableDays) ==
    /\ SetDB(rescheduleWeek(DB, planId, weekNumber, newAvailableDays))
    /\ last' = RescheduleRecord("service", planId, weekNumber, newAvailableDays)
    /\ calls' = calls + 1
    /\ UNCHANGED inflight
    /\ UNCHANGED today

\* no log found for the workout
AlreadyLoggedNever(db, workoutId) == FALSE

\* SELECT id FROM run_logs WHERE workout_id = ?
AlreadyLogged(db, workoutId) == \E l \in db.runLogs : l.workout_id = workoutId

\* POST /runs: workoutId is NULL for an unplanned run; the date defaults to today.
\* A planned workout that already has a log is answered 400 and nothing is
\* written.
LogRun(workoutId, entry) ==
    /\ entry.effort_level >= 1 /\ entry.effort_level <= 10
    /\ entry.pain_level >= 0 /\ entry.pain_level <= 10
    /\ workoutId # NULL => \E w \in workouts : w.id = workoutId
    /\ IF workoutId # NULL /\ AlreadyLogged(DB, workoutId)
       THEN /\ UNCHANGED <<runLogs, nextId, workouts>>
            /\ last' = [op |-> "logRun", workoutId |-> workoutId, logId |-> NULL,
                        status |-> 400, pre |-> DB]
       ELSE /\ runLogs' = runLogs \cup
                  {[id |-> nextId.log, workout_id |-> workoutId, date |-> today,
                    completed |-> IF entry.completed THEN 1 ELSE 0,
                    duration_minutes |-> entry.duration_minutes,
                    effort_level |-> entry.effort_level, pain_level |-> entry.pain_level,
                    is_unplanned |-> IF workoutId = NULL THEN 1 ELSE 0]}
            /\ nextId' = [nextId EXCEPT !.log = @ + 1]
            /\ workouts' = IF workoutId # NULL /\ entry.completed
                           THEN {IF w.id = workoutId THEN [w EXCEPT !.completed = 1] ELSE w
                                 : w \in workouts}
                           ELSE workouts
            /\ last' = [op |-> "logRun", workoutId |-> workoutId, logId |-> nextId.log,
                        status |-> 201, pre |-> DB]
    /\ calls' = calls + 1
    /\ UNCHANGED inflight
    /\ UNCHANGED <<goals, plans, adjustments, today>>

\* PUT /runs/:id with { completed }
UpdateLog(logId, completed) ==
    /\ \E l \in runLogs : l.id = logId
    /\ LET log == CHOOSE l \in runLogs : l.id = logId
           flag == IF completed THEN 1 ELSE 0
       IN  /\ runLogs' = (runLogs \ {log}) \cup {[log EXCEPT !.completed = flag]}
           /\ workouts' = IF log.workout_id # NULL
                          THEN {IF w.id = log.workout_id THEN [w EXCEPT !.completed = flag]
                                ELSE w : w \in workouts}
                          ELSE workouts
    /\ last' = [op |-> "updateLog", logId |-> logId, pre |-> DB]
    /\ calls' = calls + 1
    /\ UNCHANGED inflight
    /\ UNCHANGED <<goals, plans, adjustments, nextId, today>>

\* DELETE /runs/:id
DeleteLog(logId) ==
    /\ \E l \in runLogs : l.id = logId
    /\ LET log == CHOOSE l \in runLogs : l.id = logId
       IN  /\ workouts' = IF log.workout_id # NULL
                          THEN {IF w.id = log.workout_id THEN [w EXCEPT !.completed = 0]
                                ELSE w : w \in workouts}
                          ELSE workouts
           /\ runLogs' = runLogs \ {log}
    /\ last' = [op |-> "deleteLog", logId |-> logId, pre |-> DB]
    /\ calls' = calls + 1
    /\ UNCHANGED inflight
    /\ UNCHANGED <<goals, plans, adjustments, nextId, today>>

\* POST /progress/check-adjustment
CheckAdjustment ==
    /\ LET r == applyWeeklyAdjustment(DB, today)
       IN  /\ SetDB(r.db)
           /\ last' = [op |-> "applyWeeklyAdjustment", applied |-> r.applied, type |-> r.type,
                       adjustmentId |-> nextId.adjustment, pre |-> DB,
                       prior |-> IF last.op = "applyWeeklyAdjustment"
                                 THEN [op |-> last.op, applied |-> last.applied,
                                       type |-> last.type, pre |-> last.pre]
                                 ELSE [op |-> last.op],
                       multiplier |-> IF HasStats(DB, today)
                                      THEN getAdjustmentRecommendation(
                                              analyzeWeeklyPerformance(DB, today)).volumeMultiplier
                                      ELSE <<1, 1>>]
    /\ calls' = calls + 1
    /\ UNCHANGED inflight
    /\ UNCHANGED today

\* a call of `service` started on database `pre` in which one of the writes
\* throws, write k + 1: the route's catch answers 500 and the first k writes stay
FailedCall(service, pre, writes) ==
    /\ \E k \in 0..(Len(writes) - 1) :
          /\ SetDB(IF k = 0 THEN pre ELSE writes[k])
          /\ last' = [op |-> "failure", service |-> service, pre |-> pre, writes |-> k,
                      of |-> Len(writes)]
    /\ calls' = calls + 1
    /\ UNCHANGED inflight
    /\ UNCHANGED today

\* PUT /goals/:id whose regeneratePlan fails at a write
UpdateGoalFails(goalId, update) ==
    /\ \E g \in goals : g.id = goalId
    /\ update.fields # {}
    /\ "available_days" \in update.fields => Len(update.available_days) >= 2
    /\ LET old == CHOOSE g \in goals : g.id = goalId
           new == [old EXCEPT
                     !.available_days = IF "available_days" \in update.fields
                                        THEN update.available_days ELSE @,
                     !.max_weekday_time = IF "max_weekday_time" \in update.fields
                                          THEN update.max_weekday_time ELSE @,
                     !.max_weekend_time = IF "max_weekend_time" \in update.fields
                                          THEN update.max_weekend_time ELSE @]
           d1 == [DB EXCEPT !.goals = (goals \ {old}) \cup {new}]
       IN  FailedCall("regeneratePlan", d1, regeneratePlanWrites(d1, goalId, today, FALSE))

\* POST /workouts/reschedule-week whose rescheduleWeek fails at a write
RescheduleWeekFails(availableDays) ==
    /\ Len(availableDays) >= 2
    /\ Len(ActivePlans(DB)) > 0
    /\ LET plan == ActivePlans(DB)[1]
           current == CurrentWeekWorkouts(DB, plan.id, startOfWeek(today))
       IN  \E weekNumber \in {w.week_number : w \in current} :
              FailedCall("rescheduleWeek", DB,
                         rescheduleWeekWrites(DB, plan.id, weekNumber, availableDays))

\* POST /progress/check-adjustment whose applyWeeklyAdjustment fails at a write
CheckAdjustmentFails ==
    FailedCall("applyWeeklyAdjustment", DB, applyWeeklyAdjustmentWrites(DB, today))

\* the clock moves on by `days`
AdvanceClock(days) ==
    /\ today' = today + days
    /\ last' = [op |-> "clock"]
    /\ calls' = calls + 1
    /\ UNCHANGED inflight
    /\ UNCHANGED <<goals, plans, workouts, runLogs, adjustments, nextId>>

\* calculateWeeklyVolume called on its own
VolumeCall(weekNumber, totalWeeks, distance, level, currentFrequency, longestRecentRun) ==
    /\ last.op = "init"
    /\ last' = [op |-> "calculateWeeklyVolume", weekNumber |-> weekNumber,
                totalWeeks |-> totalWeeks, race_distance |-> distance,
                experience_level |-> level, currentFrequency |-> currentFrequency,
                longestRecentRun |-> longestRecentRun,
                result |-> calculateWeeklyVolume(weekNumber, totalWeeks, RACE_CONFIGS(distance),
                                                 EXPERIENCE_MULTIPLIERS(level),
                                                 currentFrequency, longestRecentRun)]
    /\ UNCHANGED <<goals, plans, workouts, runLogs, adjustments, nextId, today, calls, inflight>>

\* getAdjustmentRecommendation called on its own
RecommendCall(stats) ==
    /\ last.op = "init"
    /\ last' = [op |-> "getAdjustmentRecommendation", stats |-> stats,
                result |-> getAdjustmentRecommendation(stats)]
    /\ UNCHANGED <<goals, plans, workouts, runLogs, adjustments, nextId, today, calls, inflight>>

InitOn(days) ==
    /\ goals = {}
    /\ plans = {}
    /\ workouts = {}
    /\ runLogs = {}
    /\ adjustments = {}
    /\ nextId = EmptyDB.nextId
    /\ inflight = <<>>
    /\ today \in days
    /\ calls = 0
    /\ last = [op |-> "init"]

(***************************************************************************)
(* SpecVolume: calculateWeeklyVolume on its own, over every week of every  *)
(* plan length up to MaxVolumeWeeks.                                       *)
(***************************************************************************)
MaxVolumeWeeks == 5

Frequencies == 1..7
LongestRuns == {10, 30, 60, 120, 180}

InitVolume == InitOn({0})

NextVolume ==
    \E totalWeeks \in 1..MaxVolumeWeeks, distance \in RaceDistances, level \in ExperienceLevels,
       currentFrequency \in Frequencies, longestRecentRun \in LongestRuns :
        \E weekNumber \in 1..totalWeeks :
            VolumeCall(weekNumber, totalWeeks, distance, level, currentFrequency, longestRecentRun)

SpecVolume == InitVolume /\ [][NextVolume]_vars

\* the volume of the week before last's week (the week-0 baseline for week 1)
PreviousVolume ==
    IF last.weekNumber > 1
    THEN calculateWeeklyVolume(last.weekNumber - 1, last.totalWeeks,
                               RACE_CONFIGS(last.race_distance),
                               EXPERIENCE_MULTIPLIERS(last.experience_level),
                               last.currentFrequency, last.longestRecentRun)
    ELSE RatInt(last.currentFrequency * 30)

\* C1: the volume of week N is at most 1.1 times the volume of week N-1, and
\* the volume of week 1 at most 1.1 * currentFrequency * 30.
C1_WeeklyIncreaseAtMostTenPercent ==
    last.op = "calculateWeeklyVolume" =>
        RatLeq(last.result, RatMul(PreviousVolume, <<11, 10>>))

\* a week after the first whose phase formula asks for more than the limit,
\* so that the limit is what is returned
C1_Witness ==
    /\ last.op = "calculateWeeklyVolume"
    /\ last.weekNumber > 1
    /\ last.result = RatMul(PreviousVolume, <<11, 10>>)
    /\ ~RatLeq(BaseVolume(last.weekNumber, last.totalWeeks, RACE_CONFIGS(last.race_distance),
                          EXPERIENCE_MULTIPLIERS(last.experience_level),
                          last.currentFrequency, last.longestRecentRun),
               last.result)

(***************************************************************************)
(* SpecGen: one POST /goals on an empty database, for every weekday of the *)
(* request, a range of goals and of permitted-day lists (invalid names,    *)
(* capitalised names and repeated days included).                          *)
(***************************************************************************)
MaxGenWeeks == 5

DayNames == {"sunday", "monday", "tuesday", "wednesday", "thursday", "friday", "saturday"}

GenDayLists ==
    {<<a, b>> : a, b \in DayNames \cup {"Saturday", "funday"}}
    \cup {<<"tuesday", "thursday", "saturday", "sunday">>,
          <<"sunday", "monday", "tuesday">>,
          <<"monday", "wednesday", "friday">>,
          <<"friday", "monday", "wednesday", "tuesday">>,
          <<"monday", "tuesday", "wednesday", "thursday", "friday", "saturday", "sunday">>,
          <<"sunday", "saturday", "friday", "thursday", "wednesday", "tuesday", "monday">>,
          <<"monday", "monday", "saturday", "thursday">>}

\* race dates from tomorrow to MaxGenWeeks weeks ahead, on two weekdays
GenRaceIn == {7 * k + r : k \in 0..MaxGenWeeks, r \in {0, 3}} \ {0}

GenGoalInputs ==
    [race_distance : {"5k", "marathon"}, experience_level : ExperienceLevels,
     current_frequency : {3}, longest_recent_run : {30},
     available_days : GenDayLists,
     max_weekday_time : {60}, max_weekend_time : {90},
     raceIn : GenRaceIn]

InitGen == InitOn({0, 3, 6})

NextGen ==
    /\ calls = 0
    /\ \E input \in GenGoalInputs, partial \in BOOLEAN :
        /\ input.raceIn - (IF partial THEN 1 ELSE 0) < 7 * (MaxGenWeeks + 1)
        /\ CreateGoal(input, partial)

SpecGen == InitGen /\ [][NextGen]_vars

(***************************************************************************)
(* What the claims speak of                                                *)
(***************************************************************************)
\* the goal and the plan of the last generateTrainingPlan / regeneratePlan
LastGoal == CHOOSE g \in goals : g.id = last.goalId
LastPlanWorkouts == {w \in workouts : w.plan_id = last.planId}
Generated == last.op = "generateTrainingPlan"

\* the valid permitted weekdays of a list of names, as a set of day numbers
ValidDays(names) ==
    {DAY_MAP(toLowerCase(names[i])) : i \in 1..Len(names)} \ {Undefined}

\* a list of distinct valid day names
DistinctValid(names) ==
    /\ \A i \in 1..Len(names) : DAY_MAP(toLowerCase(names[i])) # Undefined
    /\ Cardinality(ValidDays(names)) = Len(names)

\* Saturday if permitted, else Sunday if permitted, else the largest day number
ExpectedLongRunDay(valid) ==
    IF 6 \in valid THEN 6
    ELSE IF 0 \in valid THEN 0
    ELSE CHOOSE m \in valid : \A d \in valid : d <= m

\* whole weeks from the request's instant to the race date's midnight
WholeWeeks(goal, plan, partial) ==
    (goal.race_date - plan.start_date - (IF partial THEN 1 ELSE 0)) \div 7

\* C2: after generateTrainingPlan for a goal with a valid permitted weekday,
\* every week 1..totalWeeks (totalWeeks = max(1, whole weeks to the race)) has
\* exactly one long-run workout, on Saturday if permitted, else on Sunday if
\* permitted, else on the permitted weekday with the largest day number.
C2_OneLongRunPerWeekOnPreferredDay ==
    (Generated /\ ValidDays(LastGoal.available_days) # {}) =>
        LET plan == CHOOSE p \in plans : p.id = last.planId
            totalWeeks == Max(1, WholeWeeks(LastGoal, plan, last.partial))
            expected == ExpectedLongRunDay(ValidDays(LastGoal.available_days))
        IN  /\ {w.week_number : w \in LastPlanWorkouts} = 1..totalWeeks
            /\ \A week \in 1..totalWeeks :
                  LET long == {w \in LastPlanWorkouts :
                                  w.week_number = week /\ w.is_long_run = 1}
                  IN  /\ Cardinality(long) = 1
                      /\ \A w \in long : getDay(w.date) = expected

\* a plan of several weeks for a goal that permits Sunday and a weekday but
\* not Saturday
C2_Witness ==
    /\ Generated
    /\ last.totalWeeks >= 3
    /\ 0 \in ValidDays(LastGoal.available_days)
    /\ 6 \notin ValidDays(LastGoal.available_days)
    /\ \E d \in ValidDays(LastGoal.available_days) : d \in 1..5
    /\ Cardinality({w \in LastPlanWorkouts : w.is_long_run = 1}) = last.totalWeeks

\* C4: for a beginner goal with n >= 2 distinct permitted weekdays every
\* generated week holds exactly n workouts, one on each permitted day: one
\* long run and n - 1 easy runs.
C4_BeginnerWeekFillsEveryPermittedDay ==
    (Generated /\ LastGoal.experience_level = "beginner"
       /\ DistinctValid(LastGoal.available_days)) =>
        \A week \in 1..last.totalWeeks :
            LET ws == {w \in LastPlanWorkouts : w.week_number = week}
                n  == Len(LastGoal.available_days)
            IN  /\ Cardinality(ws) = n
                /\ {getDay(w.date) : w \in ws} = ValidDays(LastGoal.available_days)
                /\ Cardinality({w \in ws : w.workout_type = "long"}) = 1
                /\ Cardinality({w \in ws : w.workout_type = "easy"}) = n - 1

\* C5: for an intermediate goal with at least 2 permitted days no build-phase
\* week holds an interval workout, and when the plan has a peak-phase week,
\* some peak-phase week holds one.
C5_IntermediateIntervalsOnlyInPeak ==
    (Generated /\ LastGoal.experience_level = "intermediate"
       /\ Cardinality(ValidDays(LastGoal.available_days)) >= 2) =>
        LET weeksOf(phase) == {k \in 1..last.totalWeeks : PhaseOf(k, last.totalWeeks) = phase}
            intervalIn(k) == \E w \in LastPlanWorkouts :
                                w.week_number = k /\ w.workout_type = "interval"
        IN  /\ \A k \in weeksOf("build") : ~intervalIn(k)
            /\ weeksOf("peak") # {} => \E k \in weeksOf("peak") : intervalIn(k)

(***************************************************************************)
(* SpecPlan: one POST /goals, then rescheduleWeek (called as a service for *)
(* any week number, or through POST /workouts/reschedule-week) with a      *)
(* range of new permitted-day lists.                                       *)
(***************************************************************************)
MaxReschedules == 1

AllWeek == <<"monday", "tuesday", "wednesday", "thursday", "friday", "saturday", "sunday">>
AllWeekReversed == <<"sunday", "saturday", "friday", "thursday", "wednesday", "tuesday", "monday">>

PlanGoalInputs ==
    [race_distance : {"marathon"}, experience_level : ExperienceLevels,
     current_frequency : {7}, longest_recent_run : {30},
     available_days : {<<"wednesday", "sunday", "saturday">>, AllWeek, AllWeekReversed},
     max_weekday_time : {20}, max_weekend_time : {90},
     raceIn : {17}]

RescheduleLists ==
    {<<"sunday", "wednesday">>, <<"wednesday", "sunday">>, <<"monday", "tuesday">>,
     <<"saturday", "sunday">>, <<"friday", "saturday", "sunday">>,
     <<"wednesday", "sunday", "saturday">>, <<"sunday", "monday", "tuesday">>,
     <<"tuesday", "thursday", "saturday", "sunday">>, <<"monday", "wednesday", "friday">>,
     <<"monday", "thursday", "saturday">>, AllWeek, AllWeekReversed,
     <<"funday", "monday">>, <<"funday", "noday">>, <<"Saturday", "Tuesday", "Thursday">>,
     <<"monday", "monday", "friday">>,
     <<"tuesday", "tuesday", "wednesday", "thursday", "thursday", "saturday">>,
     <<"saturday">>}

\* the week numbers passed: the plan's two weeks and one it does not have
RescheduleWeekNumbers == 1..3

InitPlan == InitOn({0})

NextPlan ==
    \/ /\ calls = 0
       /\ \E input \in PlanGoalInputs : CreateGoal(input, FALSE)
    \/ /\ calls >= 1
       /\ calls <= MaxReschedules
       /\ \E planId \in {p.id : p \in plans}, weekNumber \in RescheduleWeekNumbers,
             newAvailableDays \in RescheduleLists :
               RescheduleWeekCall(planId, weekNumber, newAvailableDays)
    \/ /\ calls >= 1
       /\ calls <= MaxReschedules
       /\ \E availableDays \in RescheduleLists : RescheduleWeekRoute(availableDays)

SpecPlan == InitPlan /\ [][NextPlan]_vars

Rescheduled == last.op = "rescheduleWeek"

\* the rows of the rescheduled week after the call, in rowid order
WeekAfter == SortById(WeekWorkouts(DB, last.planId, last.weekNumber))

CircularDistance(a, b) == Min2(Abs(a - b), 7 - Abs(a - b))

\* the weeks written by the last generateTrainingPlan or rescheduleWeek together
\* with the permitted-day list they were written for
WrittenWeeks ==
    IF Generated
    THEN {[rows |-> {w \in LastPlanWorkouts : w.week_number = k},
           days |-> LastGoal.available_days] : k \in 1..last.totalWeeks}
    ELSE IF Rescheduled /\ Len(last.before) > 0
    THEN {[rows |-> WeekWorkouts(DB, last.planId, last.weekNumber),
           days |-> last.newAvailableDays]}
    ELSE {}

\* C6: in a week written by generateTrainingPlan or rescheduleWeek that holds a
\* long run and a non-long key workout, when the permitted-day list has a day
\* other than the long-run day at circular weekday distance >= 2 from it, the
\* key workout is at circular distance >= 2 from the long-run day.
C6_KeyWorkoutNotAdjacentWhenPossible ==
    \A week \in WrittenWeeks :
        \A long \in {w \in week.rows : w.is_long_run = 1} :
            \A key \in {w \in week.rows : w.is_key_workout = 1 /\ w.is_long_run = 0} :
                (\E d \in ValidDays(week.days) :
                    d # getDay(long.date) /\ CircularDistance(d, getDay(long.date)) >= 2)
                => CircularDistance(getDay(key.date), getDay(long.date)) >= 2

\* a rescheduled week with its long run on Saturday, where Sunday was offered
\* along with a day that is not adjacent to Saturday
C6_Witness ==
    /\ Rescheduled
    /\ 0 \in ValidDays(last.newAvailableDays)
    /\ \E long, key \in WeekWorkouts(DB, last.planId, last.weekNumber) :
          /\ long.is_long_run = 1 /\ getDay(long.date) = 6
          /\ key.is_key_workout = 1 /\ key.is_long_run = 0
          /\ CircularDistance(getDay(key.date), 6) >= 2

\* what rescheduleWeek is to preserve of a workout
Content(w) ==
    [workout_type |-> w.workout_type, title |-> w.title, description |-> w.description,
     duration_minutes |-> w.duration_minutes, intensity |-> w.intensity,
     tired_alternative |-> w.tired_alternative,
     is_key_workout |-> w.is_key_workout, is_long_run |-> w.is_long_run]

\* C7: after rescheduleWeek every workout of the week matches a distinct
\* workout that was in the week before the call in type, title, description,
\* duration, intensity, tired-alternative, key flag and long-run flag (every
\* content occurs after the call at most as often as before it).
C7_RescheduleKeepsContent ==
    Rescheduled =>
        \A i \in 1..Len(WeekAfter) :
            LET c == Content(WeekAfter[i])
            IN  Cardinality({j \in 1..Len(WeekAfter) : Content(WeekAfter[j]) = c})
                  <= Cardinality({j \in 1..Len(last.before) : Content(last.before[j]) = c})

\* a rescheduled week that keeps workouts of different durations on new dates
C7_Witness ==
    /\ Rescheduled
    /\ Len(WeekAfter) >= 3
    /\ \E i, j \in 1..Len(WeekAfter) :
          /\ WeekAfter[i].workout_type = "easy" /\ WeekAfter[j].workout_type = "easy"
          /\ WeekAfter[i].duration_minutes # WeekAfter[j].duration_minutes
    /\ {w.date : w \in WeekWorkouts(DB, last.planId, last.weekNumber)}
         # {last.before[j].date : j \in 1..Len(last.before)}

\* the rows of a sequence that satisfy a flag pattern
RowsWith(rows, isKey, isLong) ==
    LET match(w) == w.is_key_workout = isKey /\ w.is_long_run = isLong
    IN  SelectSeq(rows, match)

\* C10: after rescheduleWeek with a list of k >= 2 distinct valid days on a
\* week that held one long run, one non-long key workout and e easy runs, the
\* week holds the long run, the key workout and the first min(e, k-2) easy
\* runs of the original order and nothing else, each on a distinct day of the
\* new list.
C10_RescheduleKeepsLongKeyAndFirstEasyRuns ==
    (Rescheduled /\ Len(last.newAvailableDays) >= 2 /\ DistinctValid(last.newAvailableDays)
       /\ Len(RowsWith(last.before, 1, 1)) = 1 /\ Len(RowsWith(last.before, 1, 0)) = 1
       /\ Len(RowsWith(last.before, 0, 1)) = 0) =>
        LET k == Len(last.newAvailableDays)
            easyBefore == RowsWith(last.before, 0, 0)
            easyAfter == RowsWith(WeekAfter, 0, 0)
            kept == Min2(Len(easyBefore), k - 2)
        IN  /\ Len(WeekAfter) = 2 + kept
            /\ Len(RowsWith(WeekAfter, 1, 1)) = 1
            /\ Content(RowsWith(WeekAfter, 1, 1)[1]) = Content(RowsWith(last.before, 1, 1)[1])
            /\ Len(RowsWith(WeekAfter, 1, 0)) = 1
            /\ Content(RowsWith(WeekAfter, 1, 0)[1]) = Content(RowsWith(last.before, 1, 0)[1])
            /\ Len(easyAfter) = kept
            /\ \A i \in 1..kept : Content(easyAfter[i]) = Content(easyBefore[i])
            /\ \A i, j \in 1..Len(WeekAfter) : i # j => WeekAfter[i].date # WeekAfter[j].date
            /\ \A i \in 1..Len(WeekAfter) :
                  getDay(WeekAfter[i].date) \in ValidDays(last.newAvailableDays)

\* a week of five easy runs rescheduled to four days: two easy runs are kept
\* and three are gone
C10_Witness ==
    /\ Rescheduled
    /\ Len(last.newAvailableDays) = 4 /\ DistinctValid(last.newAvailableDays)
    /\ Len(RowsWith(last.before, 1, 1)) = 1 /\ Len(RowsWith(last.before, 1, 0)) = 1
    /\ Len(RowsWith(last.before, 0, 0)) = 5
    /\ Len(RowsWith(WeekAfter, 0, 0)) = 2

(***************************************************************************)
(* Spec: the requests of the API in any order, MaxCalls steps long, from   *)
(* small menus of request bodies.  A step is one request or one week       *)
(* passing.                                                                *)
(***************************************************************************)
MaxCalls == 4

GoalInputs ==
    [race_distance : {"5k"}, experience_level : {"beginner", "intermediate"},
     current_frequency : {3}, longest_recent_run : {30},
     available_days : {<<"tuesday", "thursday", "saturday", "sunday">>},
     max_weekday_time : {60}, max_weekend_time : {90},
     raceIn : {17}]

GoalUpdates ==
    {[fields |-> {"available_days"}, available_days |-> <<"monday", "wednesday">>,
      max_weekday_time |-> 0, max_weekend_time |-> 0],
     [fields |-> {"max_weekday_time", "max_weekend_time"}, available_days |-> <<>>,
      max_weekday_time |-> 20, max_weekend_time |-> 30]}

RouteLists == {<<"sunday", "wednesday">>, <<"monday", "wednesday", "friday">>}

LogEntries ==
    {[completed |-> TRUE, duration_minutes |-> 30, effort_level |-> 4, pain_level |-> 0],
     [completed |-> FALSE, duration_minutes |-> 10, effort_level |-> 9, pain_level |-> 6]}

\* the planned workouts a run is logged against: those of the week of `today`
ThisWeekIds ==
    {w.id : w \in {x \in workouts : startOfWeek(x.date) = startOfWeek(today)}}

Requests ==
    \/ \E input \in GoalInputs : CreateGoal(input, FALSE)
    \/ \E g \in goals, update \in GoalUpdates : UpdateGoal(g.id, update, FALSE)
    \/ \E g \in goals : DeleteGoal(g.id)
    \/ \E availableDays \in RouteLists : RescheduleWeekRoute(availableDays)
    \/ \E workoutId \in ThisWeekIds \cup {NULL}, entry \in LogEntries : LogRun(workoutId, entry)
    \/ \E l \in runLogs, completed \in BOOLEAN : UpdateLog(l.id, completed)
    \/ \E l \in runLogs : DeleteLog(l.id)
    \/ CheckAdjustment
    \/ AdvanceClock(7)

Init == InitOn({0})

Next == calls < MaxCalls /\ Requests

Spec == Init /\ [][Next]_vars

\* C3: in every state reached by generateTrainingPlan, regeneratePlan,
\* rescheduleWeek and applyWeeklyAdjustment in any order, no workout of the plan
\* of a beginner goal has type tempo or interval.
C3_BeginnerPlansHaveNoTempoOrInterval ==
    \A w \in workouts : \A p \in plans : \A g \in goals :
        (w.plan_id = p.id /\ p.goal_id = g.id /\ g.experience_level = "beginner")
        => w.workout_type \notin {"tempo", "interval"}

\* a beginner's plan that has been adjusted and whose week has then been
\* rescheduled
C3_Witness ==
    /\ Rescheduled
    /\ \E a \in adjustments : a.plan_id = last.planId
    /\ \E p \in plans : \E g \in goals :
          /\ p.id = last.planId /\ p.goal_id = g.id /\ g.experience_level = "beginner"
          /\ Cardinality({w \in workouts : w.plan_id = p.id}) >= 4

(***************************************************************************)
(* SpecService: requests as in Spec, and rescheduleWeek also called as a   *)
(* service with any plan and any week number.                              *)
(***************************************************************************)
NextService ==
    /\ calls < MaxCalls
    /\ \/ \E input \in GoalInputs : CreateGoal(input, FALSE)
       \/ \E availableDays \in RouteLists : RescheduleWeekRoute(availableDays)
       \/ \E workoutId \in ThisWeekIds \cup {NULL}, entry \in LogEntries : LogRun(workoutId, entry)
       \/ CheckAdjustment
       \/ AdvanceClock(7)
       \/ \E p \in plans, weekNumber \in RescheduleWeekNumbers, newAvailableDays \in RouteLists :
             RescheduleWeekCall(p.id, weekNumber, newAvailableDays)

SpecService == Init /\ [][NextService]_vars

\* the workouts of db that have a RunLog and lie in a week before that of `now`
LoggedPriorWeek(db, now) ==
    {w \in db.workouts :
        /\ w.date < startOfWeek(now)
        /\ \E l \in db.runLogs : l.workout_id = w.id}

\* a workout of the state before the last call still has its row (id, date,
\* completed flag and all) and every RunLog that pointed to it still does
Untouched(w) ==
    /\ w \in workouts
    /\ \A l \in last.pre.runLogs : l.workout_id = w.id => l \in runLogs

\* C8 (as stated): for any week number passed, every workout that has a RunLog
\* and lies in a week before the current week keeps its row, its date, its
\* completed flag and its RunLog link across rescheduleWeek.
C8_AnyWeekNumberKeepsLoggedPriorWeeks ==
    Rescheduled => \A w \in LoggedPriorWeek(last.pre, today) : Untouched(w)

\* C8 (amended): the same, for rescheduleWeek as POST /workouts/reschedule-week
\* calls it, with the week of the active plan's earliest workout dated on or
\* after the Monday of the current week.
C8_RouteKeepsLoggedPriorWeeks ==
    (Rescheduled /\ last.via = "route") =>
        \A w \in LoggedPriorWeek(last.pre, today) : Untouched(w)

\* the route has rescheduled a week of a plan that has a logged workout in an
\* earlier week
C8_Witness ==
    /\ Rescheduled
    /\ last.via = "route"
    /\ Len(last.before) > 0
    /\ \E w \in LoggedPriorWeek(last.pre, today) : w.plan_id = last.planId

\* the rows outside week `weekNumber` of plan `planId`
OtherWorkouts(ws, planId, weekNumber) ==
    {w \in ws : ~(w.plan_id = planId /\ w.week_number = weekNumber)}

\* run logs without their workout link
Unlinked(logs) == {[l EXCEPT !.workout_id = NULL] : l \in logs}

\* goals without their list of permitted days
WithoutDays(gs) == {[g EXCEPT !.available_days = <<>>] : g \in gs}

\* C9: rescheduleWeek leaves unchanged every workout of another week or
\* another plan, every goal, every plan, every RunLog field but the workout
\* link, and every WeeklyAdjustment.  (The route that calls it then writes the
\* new list into the goal's available_days.)
C9_RescheduleFrame ==
    Rescheduled =>
        /\ OtherWorkouts(workouts, last.planId, last.weekNumber)
             = OtherWorkouts(last.pre.workouts, last.planId, last.weekNumber)
        /\ plans = last.pre.plans
        /\ adjustments = last.pre.adjustments
        /\ Unlinked(runLogs) = Unlinked(last.pre.runLogs)
        /\ last.via = "service" => goals = last.pre.goals
        /\ last.via = "route" => WithoutDays(goals) = WithoutDays(last.pre.goals)

\* a service call that moved a week holding a logged workout, in a plan that
\* has another week
C9_Witness ==
    /\ Rescheduled
    /\ last.via = "service"
    /\ Len(last.before) > 0
    /\ OtherWorkouts({w \in workouts : w.plan_id = last.planId}, last.planId, last.weekNumber) # {}
    /\ \E l \in last.pre.runLogs : \E i \in 1..Len(last.before) :
          l.workout_id = last.before[i].id
    /\ runLogs # last.pre.runLogs

(***************************************************************************)
(* SpecRecommend: getAdjustmentRecommendation on its own, over the weekly  *)
(* statistics of up to MaxStatRuns logged runs (effort 1..10 and pain      *)
(* 0..10 each) and of 0, 2, 5 or 10 planned runs.                          *)
(***************************************************************************)
MaxStatRuns == 2

PlannedCounts == {0, 2, 5, 10}

WeeklyStatsMenu ==
    UNION {[totalRuns : {n}, effortSum : n..(10 * n), painSum : 0..(10 * n),
            plannedRuns : {p}, completedRuns : 0..p, missedKeyWorkouts : 0..2,
            totalMinutes : {30 * n}] : n \in 0..MaxStatRuns, p \in PlannedCounts}

InitRecommend == InitOn({0})

NextRecommend ==
    /\ last.op = "init"
    /\ \E stats \in WeeklyStatsMenu : RecommendCall(stats)

SpecRecommend == InitRecommend /\ [][NextRecommend]_vars

\* the averages and the completion rate of a WeeklyStats, as fractions
AveragePain(stats) == IF stats.totalRuns > 0 THEN Rat(stats.painSum, stats.totalRuns) ELSE <<0, 1>>
AverageEffort(stats) == IF stats.totalRuns > 0 THEN Rat(stats.effortSum, stats.totalRuns) ELSE <<0, 1>>
CompletionRate(stats) ==
    IF stats.plannedRuns > 0 THEN Rat(stats.completedRuns, stats.plannedRuns) ELSE <<0, 1>>

\* the number of the first rule of the table that matches
FirstRule(stats) ==
    LET rate == CompletionRate(stats)
    IN  IF RatLeq(<<5, 1>>, AveragePain(stats)) THEN 1
        ELSE IF ~RatLeq(<<1, 2>>, rate) THEN 2
        ELSE IF stats.missedKeyWorkouts >= 2 THEN 3
        ELSE IF RatLeq(<<8, 1>>, AverageEffort(stats)) /\ RatLeq(<<4, 5>>, rate) THEN 4
        ELSE IF ~RatLeq(<<6, 1>>, AverageEffort(stats)) /\ RatLeq(<<9, 10>>, rate)
                /\ ~RatLeq(<<2, 1>>, AveragePain(stats)) THEN 5
        ELSE 6

\* type, multiplier and intensity adjustment of each rule
RuleTable ==
    <<[type |-> "reduce", volumeMultiplier |-> <<7, 10>>, intensityAdjustment |-> -1],
      [type |-> "reduce", volumeMultiplier |-> <<4, 5>>, intensityAdjustment |-> 0],
      [type |-> "reduce", volumeMultiplier |-> <<17, 20>>, intensityAdjustment |-> 0],
      [type |-> "maintain", volumeMultiplier |-> <<1, 1>>, intensityAdjustment |-> 0],
      [type |-> "increase", volumeMultiplier |-> <<21, 20>>, intensityAdjustment |-> 0],
      [type |-> "maintain", volumeMultiplier |-> <<1, 1>>, intensityAdjustment |-> 0]>>

\* C11: getAdjustmentRecommendation equals the ordered first-match rule table:
\* pain >= 5 reduce 0.7 / -1; else rate < 0.5 reduce 0.8; else missed key
\* workouts >= 2 reduce 0.85; else effort >= 8 and rate >= 0.8 maintain; else
\* effort < 6, rate >= 0.9 and pain < 2 increase 1.05; else maintain.
C11_RecommendationIsFirstMatchTable ==
    last.op = "getAdjustmentRecommendation" =>
        LET rule == RuleTable[FirstRule(last.stats)]
        IN  /\ last.result.type = rule.type
            /\ last.result.volumeMultiplier = rule.volumeMultiplier
            /\ last.result.intensityAdjustment = rule.intensityAdjustment

\* average pain exactly 5 together with a completion rate below one half and
\* two missed key workouts: the pain rule has answered
C11_Witness ==
    /\ last.op = "getAdjustmentRecommendation"
    /\ last.stats.totalRuns = 2 /\ last.stats.painSum = 10
    /\ last.stats.plannedRuns = 5 /\ last.stats.completedRuns = 1
    /\ last.stats.missedKeyWorkouts = 2
    /\ last.result.volumeMultiplier = <<7, 10>>
    /\ last.result.intensityAdjustment = -1

(***************************************************************************)
(* SpecAdjust: one goal, runs logged against the workouts of the current   *)
(* week, weeks passing, and POST /progress/check-adjustment, MaxAdjustSteps *)
(* steps long.                                                             *)
(***************************************************************************)
MaxAdjustSteps == 5

\* an intermediate plan whose weeks are a long run, a tempo run and a 45-minute
\* easy run, and a beginner plan whose weeks are one long run of 60 minutes
AdjustGoalInputs ==
    {[race_distance |-> "marathon", experience_level |-> "intermediate",
      current_frequency |-> 3, longest_recent_run |-> 30,
      available_days |-> <<"wednesday", "saturday", "sunday">>,
      max_weekday_time |-> 45, max_weekend_time |-> 45, raceIn |-> 17],
     [race_distance |-> "marathon", experience_level |-> "beginner",
      current_frequency |-> 7, longest_recent_run |-> 30,
      available_days |-> <<"saturday", "sunday">>,
      max_weekday_time |-> 60, max_weekend_time |-> 60, raceIn |-> 24]}

NextAdjust ==
    /\ calls < MaxAdjustSteps
    /\ \/ /\ goals = {}
          /\ \E input \in AdjustGoalInputs : CreateGoal(input, FALSE)
       \/ \E workoutId \in ThisWeekIds, entry \in LogEntries : LogRun(workoutId, entry)
       \/ AdvanceClock(7)
       \/ CheckAdjustment

SpecAdjust == Init /\ [][NextAdjust]_vars

Adjusted == last.op = "applyWeeklyAdjustment"

\* the workouts an adjustment is to scale, as they were before the call: the
\* not-completed workouts of the active goal's plan dated on or after the
\* Monday of the current week
Scalable ==
    {w \in last.pre.workouts :
        /\ w.completed = 0
        /\ w.date >= startOfWeek(today)
        /\ \E p \in last.pre.plans : \E g \in last.pre.goals :
              p.id = w.plan_id /\ g.id = p.goal_id /\ g.is_active = 1}

\* the duration now stored for a workout of the state before the call
NewDuration(w) == (CHOOSE x \in workouts : x.id = w.id).duration_minutes

IsKeyOrLong(w) == w.is_key_workout = 1 \/ w.is_long_run = 1

\* max(m, 0.85)
AtLeast85(m) == IF RatLeq(m, <<17, 20>>) THEN <<17, 20>> ELSE m

\* round(old * m), the nearest integer, halves up
ExactRound(old, m) == (2 * m[1] * old + m[2]) \div (2 * m[2])

\* C12 (as stated): after an adjustment classified reduce with multiplier m
\* every not-completed key or long-run workout of the active plan from the
\* current week on has duration round(old * max(m, 0.85)), at least
\* 0.85 * old - 0.5, and every such other workout has round(old * m).
C12_ReduceScalesByExactRounding ==
    (Adjusted /\ last.type = "reduce") =>
        \A w \in Scalable :
            IF IsKeyOrLong(w)
            THEN /\ NewDuration(w) = ExactRound(w.duration_minutes, AtLeast85(last.multiplier))
                 /\ 20 * NewDuration(w) + 10 >= 17 * w.duration_minutes
            ELSE NewDuration(w) = ExactRound(w.duration_minutes, last.multiplier)

\* C12 (amended): the same for key and long-run workouts; every other such
\* workout has a duration that is an integer nearest to old * m, where at an
\* exact half either neighbour may be the result.
C12_ReduceScalesToANearestInteger ==
    (Adjusted /\ last.type = "reduce") =>
        \A w \in Scalable :
            IF IsKeyOrLong(w)
            THEN /\ NewDuration(w) = ExactRound(w.duration_minutes, AtLeast85(last.multiplier))
                 /\ 20 * NewDuration(w) + 10 >= 17 * w.duration_minutes
            ELSE 2 * Abs(last.multiplier[2] * NewDuration(w)
                          - last.multiplier[1] * w.duration_minutes) <= last.multiplier[2]

\* a reduce by 0.7 that took an easy run from 45 to 31 minutes and a long run
\* to round(old * 0.85)
C12_Witness ==
    /\ Adjusted /\ last.applied /\ last.type = "reduce" /\ last.multiplier = <<7, 10>>
    /\ \E w \in Scalable :
          ~IsKeyOrLong(w) /\ w.duration_minutes = 45 /\ NewDuration(w) = 31
    /\ \E w \in Scalable :
          /\ w.is_long_run = 1 /\ w.duration_minutes >= 20
          /\ NewDuration(w) = ExactRound(w.duration_minutes, <<17, 20>>)

\* an applied adjustment that directly follows an applied adjustment of the
\* same classification
AdjustedTwice ==
    /\ Adjusted /\ last.applied
    /\ last.prior.op = "applyWeeklyAdjustment"
    /\ last.prior.applied /\ last.prior.type = last.type

\* the multiplier that applies to workout w under the last classification
MultiplierFor(w) ==
    IF IsKeyOrLong(w) /\ last.type = "reduce" THEN AtLeast85(last.multiplier)
    ELSE last.multiplier

\* new is an integer nearest to old * m
NearestTo(new, old, m) == 2 * Abs(m[2] * new - m[1] * old) <= m[2]

\* C13: of two successive applications with the same non-maintain
\* classification and nothing in between, each scales the duration stored at
\* its time (the second scales the result of the first), and each records a
\* WeeklyAdjustment row.
C13_AdjustmentCompounds ==
    AdjustedTwice =>
        /\ \A w \in Scalable :
              \E o \in last.prior.pre.workouts :
                  /\ o.id = w.id
                  /\ NearestTo(w.duration_minutes, o.duration_minutes, MultiplierFor(w))
                  /\ NearestTo(NewDuration(w), w.duration_minutes, MultiplierFor(w))
        /\ Cardinality(adjustments) = Cardinality(last.prior.pre.adjustments) + 2
        /\ Cardinality({a \in adjustments : a.adjustment_type = last.type})
             = Cardinality({a \in last.prior.pre.adjustments : a.adjustment_type = last.type}) + 2

\* a 60-minute workout under increase twice: 63 after the first call and 66
\* after the second, with two rows recorded
C13_Witness ==
    /\ AdjustedTwice
    /\ last.type = "increase" /\ last.multiplier = <<21, 20>>
    /\ Cardinality(adjustments) = 2
    /\ \E w \in Scalable : \E o \in last.prior.pre.workouts :
          /\ o.id = w.id /\ o.duration_minutes = 60
          /\ w.duration_minutes = 63 /\ NewDuration(w) = 66

GoalCreated == last.op = "generateTrainingPlan"

ActiveGoals == {g \in goals : g.is_active = 1}

\* C15: in every state reached by goal creations, updates and deletions (and
\* the other requests) at most one goal is active; a goal creation leaves the
\* new goal as the only active one and keeps every earlier goal, the one that
\* was active with its flag cleared and nothing else changed.
C15_AtMostOneActiveGoal ==
    /\ Cardinality(ActiveGoals) <= 1
    /\ GoalCreated =>
          /\ ActiveGoals = {g \in goals : g.id = last.goalId}
          /\ \A o \in last.pre.goals : [o EXCEPT !.is_active = 0] \in goals
          /\ Cardinality(goals) = Cardinality(last.pre.goals) + 1

\* a third goal created while the second was active and the first inactive:
\* all three exist and only the third is active
C15_Witness ==
    /\ GoalCreated
    /\ Cardinality(goals) = 3
    /\ \E o \in last.pre.goals : o.is_active = 1
    /\ \E o \in last.pre.goals : o.is_active = 0

\* the last step was PUT /goals/:id
GoalUpdated == last.op = "regeneratePlan"

PlansOf(db, goalId) == {p \in db.plans : p.goal_id = goalId}

\* C16: in every state reached by goal creations and goal updates (and the
\* other requests) every existing goal has exactly one training plan row, and
\* every plan row belongs to an existing goal.
C16_OnePlanPerGoal ==
    /\ \A g \in goals : Cardinality(PlansOf(DB, g.id)) = 1
    /\ \A p \in plans : \E g \in goals : g.id = p.goal_id

\* a goal updated while a second goal exists and after an earlier update (plan
\* ids have run ahead of goal ids): the plan it had is gone and the new plan
\* is its only one
C16_Witness ==
    /\ GoalUpdated
    /\ Cardinality(goals) = 2
    /\ \E old \in PlansOf(last.pre, last.goalId) :
          /\ old.id # last.planId
          /\ \E g \in goals : g.id = last.goalId /\ g.id < old.id
    /\ PlansOf(DB, last.goalId) = {p \in plans : p.id = last.planId}

\* the workouts of the plan that the goal of the last update had before it
PreviousPlanWorkouts ==
    {w \in last.pre.workouts : \E p \in PlansOf(last.pre, last.goalId) : w.plan_id = p.id}

\* C17: after regeneratePlan no workout of the previous plan exists, and the
\* run logs are those of before, each with the same field values except that
\* its workout reference is null when it pointed to a workout of the previous
\* plan; in every reachable state a run log's workout reference is null or
\* the id of an existing workout.
C17_RegenerateUnlinksRunLogs ==
    /\ \A l \in runLogs : l.workout_id = NULL \/ \E w \in workouts : w.id = l.workout_id
    /\ GoalUpdated =>
          /\ PreviousPlanWorkouts # {}
          /\ \A gone \in PreviousPlanWorkouts : \A w \in workouts :
                w.id # gone.id /\ w.plan_id # gone.plan_id
          /\ runLogs = {IF \E gone \in PreviousPlanWorkouts : gone.id = l.workout_id
                        THEN [l EXCEPT !.workout_id = NULL] ELSE l
                        : l \in last.pre.runLogs}

\* a goal updated after a run was logged against one of its workouts and an
\* unplanned run was logged: the first log is kept with a null reference, the
\* second is as it was
C17_Witness ==
    /\ GoalUpdated
    /\ \E l \in last.pre.runLogs :
          /\ l.workout_id # NULL /\ l.completed = 1
          /\ [l EXCEPT !.workout_id = NULL] \in runLogs
          /\ l \notin runLogs
    /\ \E l \in last.pre.runLogs : l.is_unplanned = 1 /\ l \in runLogs

\* the run logs that reference workout w
LogsOf(db, w) == {l \in db.runLogs : l.workout_id = w.id}

\* the last step was POST /runs for a planned workout that had a log
LoggedAgain ==
    /\ last.op = "logRun" /\ last.workoutId # NULL
    /\ \E l \in last.pre.runLogs : l.workout_id = last.workoutId

\* the last step was DELETE /runs/:id
LogDeleted == last.op = "deleteLog"

\* C18: in every state reached by logging, updating and deleting runs,
\* rescheduleWeek, regeneratePlan and applyWeeklyAdjustment, each workout is
\* referenced by at most one run log and is completed exactly when a run log
\* that references it is marked completed; a deleted run log is gone and the
\* workout it referenced is not completed; logging a workout that already has
\* a run log is rejected and changes nothing.
C18_CompletedFollowsTheOneRunLog ==
    /\ \A w \in workouts :
          /\ Cardinality(LogsOf(DB, w)) <= 1
          /\ w.completed = 1 <=> \E l \in LogsOf(DB, w) : l.completed = 1
    /\ LogDeleted =>
          \A l \in last.pre.runLogs :
              l.id = last.logId =>
                  /\ runLogs = last.pre.runLogs \ {l}
                  /\ \A w \in workouts : w.id = l.workout_id => w.completed = 0
                  /\ \A w \in workouts : w.id # l.workout_id => w \in last.pre.workouts
    /\ LoggedAgain => last.status = 400 /\ DB = last.pre

\* a second log of a workout whose one run log is marked not completed: the
\* request is rejected, the workout keeps its one log and stays not completed
C18_Witness ==
    /\ LoggedAgain
    /\ \E w \in workouts :
          /\ w.id = last.workoutId /\ w.completed = 0
          /\ \E l \in LogsOf(DB, w) : l.completed = 0

(***************************************************************************)
(* SpecFailure: a goal is created, runs are logged, weeks pass, and calls  *)
(* of the three services fail at any one of their writes.                  *)
(***************************************************************************)
MaxFailureSteps == 4

NextFailure ==
    /\ calls < MaxFailureSteps
    /\ \/ /\ goals = {}
          /\ \E input \in GoalInputs : CreateGoal(input, FALSE)
       \/ \E workoutId \in ThisWeekIds, entry \in LogEntries : LogRun(workoutId, entry)
       \/ AdvanceClock(7)
       \/ \E g \in goals, update \in GoalUpdates : UpdateGoalFails(g.id, update)
       \/ \E availableDays \in RouteLists : RescheduleWeekFails(availableDays)
       \/ CheckAdjustmentFails

SpecFailure == Init /\ [][NextFailure]_vars

\* the last step was a call of one of the three services that failed at a write
Failed == last.op = "failure"

\* C19: a call of regeneratePlan, rescheduleWeek or applyWeeklyAdjustment in
\* which a write fails leaves the stored plans, workouts and adjustment rows
\* exactly as they were when the call started.
C19_FailedCallIsAllOrNothing ==
    Failed =>
        /\ plans = last.pre.plans
        /\ workouts = last.pre.workouts
        /\ adjustments = last.pre.adjustments

\* the workouts of plan planId and week weekNumber with the long-run flag
LongRunsOf(planId, weekNumber) ==
    {w \in WeekWorkouts(DB, planId, weekNumber) : w.is_long_run = 1}

\* the key workouts of plan planId and week weekNumber without the long-run flag
KeyWorkoutsOf(planId, weekNumber) ==
    {w \in WeekWorkouts(DB, planId, weekNumber) : w.is_key_workout = 1 /\ w.is_long_run = 0}

\* C20: in every state reached by generateTrainingPlan, regeneratePlan,
\* rescheduleWeek and applyWeeklyAdjustment, for every plan and week number at
\* most one workout carries the long-run flag and at most one is a key
\* workout without the long-run flag.
C20_OneLongRunAndOneKeyPerWeek ==
    \A w \in workouts :
        /\ Cardinality(LongRunsOf(w.plan_id, w.week_number)) <= 1
        /\ Cardinality(KeyWorkoutsOf(w.plan_id, w.week_number)) <= 1

\* a week of a regenerated plan rescheduled: it holds one long run, one key
\* workout and an easy run
C20_Witness ==
    /\ Rescheduled
    /\ \E p \in plans : p.id = last.planId /\ p.id > p.goal_id
    /\ Cardinality(LongRunsOf(last.planId, last.weekNumber)) = 1
    /\ Cardinality(KeyWorkoutsOf(last.planId, last.weekNumber)) = 1
    /\ Cardinality(WeekWorkouts(DB, last.planId, last.weekNumber)) >= 3

(***************************************************************************)
(* SpecLifecycle: one goal is created; runs are logged, weeks pass, the    *)
(* adjustment check runs, the goal is updated and the current week is      *)
(* rescheduled, in any order, MaxLifecycleSteps steps long.                *)
(***************************************************************************)
MaxLifecycleSteps == 5

\* the bodies of PUT /goals/:id: those of Spec and one that repeats the
\* ceilings the first goal of the menu already has
LifecycleUpdates ==
    GoalUpdates \cup
    {[fields |-> {"max_weekday_time", "max_weekend_time"}, available_days |-> <<>>,
      max_weekday_time |-> 45, max_weekend_time |-> 45]}

NextLifecycle ==
    /\ calls < MaxLifecycleSteps
    /\ \/ /\ goals = {}
          /\ \E input \in AdjustGoalInputs : CreateGoal(input, FALSE)
       \/ \E workoutId \in ThisWeekIds, entry \in LogEntries : LogRun(workoutId, entry)
       \/ AdvanceClock(7)
       \/ CheckAdjustment
       \/ \E g \in goals, update \in LifecycleUpdates : UpdateGoal(g.id, update, FALSE)
       \/ \E availableDays \in RouteLists : RescheduleWeekRoute(availableDays)

SpecLifecycle == Init /\ [][NextLifecycle]_vars

\* C21: weekly adjustment rows are append-only: a row written by
\* applyWeeklyAdjustment is in the table, unchanged, after every later step
\* (goal update, reschedule, run logging, further adjustment).
C21_AdjustmentsAreAppendOnly == [][adjustments \subseteq adjustments']_vars

\* what a calendar entry shows of a workout
Calendar(w) ==
    [date |-> w.date, week_number |-> w.week_number, workout_type |-> w.workout_type,
     duration_minutes |-> w.duration_minutes, intensity |-> w.intensity,
     is_key_workout |-> w.is_key_workout, is_long_run |-> w.is_long_run]

\* the workouts of the plans of goal goalId
GoalWorkouts(db, goalId) ==
    {w \in db.workouts : \E p \in PlansOf(db, goalId) : w.plan_id = p.id}

CalendarOf(db, goalId) == {Calendar(w) : w \in GoalWorkouts(db, goalId)}

\* the calendar generateTrainingPlan writes for goal g into an empty database
FreshCalendar(g, now, partial) ==
    CalendarOf(generateTrainingPlan([EmptyDB EXCEPT !.goals = {g}], g, now, partial), g.id)

\* C22: the workouts a goal has after regeneratePlan (date, week number, type,
\* duration, intensity, key and long-run flags) are those generated for the
\* goal into an empty database on the same day, whatever reschedules,
\* adjustments and completions came before; and regeneratePlan called twice
\* in succession leaves the same workouts as called once.
C22_RegenerationIsHistoryIndependent ==
    /\ GoalUpdated =>
          \A g \in goals :
              g.id = last.goalId =>
                  CalendarOf(DB, g.id) = FreshCalendar(g, today, last.partial)
    /\ \A g \in goals :
          LET once == regeneratePlan(DB, g.id, today, FALSE)
          IN  CalendarOf(regeneratePlan(once, g.id, today, FALSE), g.id)
                = CalendarOf(once, g.id)

\* a goal updated with the values it already had, after an adjustment had
\* scaled its plan and a run had completed a workout: the calendar differs
\* from the one before the update and equals the freshly generated one
C22_Witness ==
    /\ GoalUpdated
    /\ \E g \in goals : g.id = last.goalId /\ g \in last.pre.goals
    /\ last.pre.adjustments # {}
    /\ \E w \in GoalWorkouts(last.pre, last.goalId) : w.completed = 1
    /\ CalendarOf(last.pre, last.goalId) # CalendarOf(DB, last.goalId)

(***************************************************************************)
(* PUT /goals/:id statement by statement, for requests in flight together. *)
(* inflight[i] is request i with its handler's position pc and locals.     *)
(***************************************************************************)
\* the goal row with the fields of a PUT body written to it
WithUpdate(old, update) ==
    [old EXCEPT
        !.available_days = IF "available_days" \in update.fields
                           THEN update.available_days ELSE @,
        !.max_weekday_time = IF "max_weekday_time" \in update.fields
                             THEN update.max_weekday_time ELSE @,
        !.max_weekend_time = IF "max_weekend_time" \in update.fields
                             THEN update.max_weekend_time ELSE @]

\* a request as it arrives
PutGoalRequest(goalId, update) ==
    [goalId |-> goalId, update |-> update, pc |-> "arrived",
     existingPlan |-> NULL, goal |-> [id |-> NULL]]

\* the statement at r.pc executed on db: the database and the request after it
PutGoalStep(db, r, now) ==
    CASE r.pc = "arrived" ->
            [db |-> db,
             r |-> [r EXCEPT !.pc = IF \E g \in db.goals : g.id = r.goalId
                                    THEN "update" ELSE "done"]]
      [] r.pc = "update" ->
            LET old == CHOOSE g \in db.goals : g.id = r.goalId
            IN  [db |-> [db EXCEPT !.goals = (db.goals \ {old}) \cup {WithUpdate(old, r.update)}],
                 r |-> [r EXCEPT !.pc = "select_plan"]]
      [] r.pc = "select_plan" ->
            LET existing == ExistingPlans(db, r.goalId)
            IN  [db |-> db,
                 r |-> IF Len(existing) > 0
                       THEN [r EXCEPT !.existingPlan = existing[1].id, !.pc = "delete_workouts"]
                       ELSE [r EXCEPT !.pc = "select_goal"]]
      [] r.pc = "delete_workouts" ->
            [db |-> DeleteWorkouts(db, {w \in db.workouts : w.plan_id = r.existingPlan}),
             r |-> [r EXCEPT !.pc = "delete_plan"]]
      [] r.pc = "delete_plan" ->
            [db |-> DeletePlans(db, {p \in db.plans : p.id = r.existingPlan}),
             r |-> [r EXCEPT !.pc = "select_goal"]]
      [] r.pc = "select_goal" ->
            [db |-> db,
             r |-> [r EXCEPT !.goal = CHOOSE g \in db.goals : g.id = r.goalId,
                             !.pc = "generate"]]
      [] r.pc = "generate" ->
            [db |-> generateTrainingPlan(db, r.goal, now, FALSE),
             r |-> [r EXCEPT !.pc = "done"]]

\* a handler that gives way to other requests between its statements
HandlerYieldsAlways == TRUE

\* the handler is a synchronous function (no async, no await; better-sqlite3
\* calls return their result): once started it runs to its end before the
\* event loop starts another request's handler
HandlerYields == FALSE

\* request i is between its handler's first and last statement
Busy(i) == inflight[i].pc \notin {"arrived", "done"}

\* two PUT /goals/:id requests for the same goal arrive together
ConcurrentUpdates(goalId, first, second) ==
    /\ inflight = <<>>
    /\ \E g \in goals : g.id = goalId
    /\ inflight' = <<PutGoalRequest(goalId, first), PutGoalRequest(goalId, second)>>
    /\ last' = [op |-> "concurrentUpdates", goalId |-> goalId, pre |-> DB, order |-> <<>>]
    /\ calls' = calls + 1
    /\ UNCHANGED <<goals, plans, workouts, runLogs, adjustments, nextId, today>>

\* the handler of request i executes its next statement
HandleStep(i) ==
    /\ i \in DOMAIN inflight
    /\ inflight[i].pc # "done"
    /\ HandlerYields \/ \A j \in DOMAIN inflight \ {i} : ~Busy(j)
    /\ LET s == PutGoalStep(DB, inflight[i], today)
       IN  /\ SetDB(s.db)
           /\ inflight' = [inflight EXCEPT ![i] = s.r]
    /\ last' = [last EXCEPT !.order = IF inflight[i].pc = "arrived" THEN Append(@, i) ELSE @]
    /\ UNCHANGED <<today, calls>>

(***************************************************************************)
(* SpecConcurrent: a goal is created, weeks may pass, then two updates of  *)
(* the goal arrive together and their handlers run.                        *)
(***************************************************************************)
MaxConcurrentSteps == 3

NextConcurrent ==
    \/ /\ inflight = <<>>
       /\ calls < MaxConcurrentSteps
       /\ \/ /\ goals = {}
             /\ \E input \in GoalInputs : CreateGoal(input, FALSE)
          \/ AdvanceClock(7)
          \/ \E g \in goals, first \in LifecycleUpdates, second \in LifecycleUpdates :
                ConcurrentUpdates(g.id, first, second)
    \/ \E i \in DOMAIN inflight : HandleStep(i)

SpecConcurrent == Init /\ [][NextConcurrent]_vars

\* both requests have been answered
BothDone == Len(inflight) = 2 /\ \A i \in 1..2 : inflight[i].pc = "done"

\* PUT /goals/:id as one step on db
AfterUpdate(db, goalId, update, now) ==
    LET old == CHOOSE g \in db.goals : g.id = goalId
    IN  regeneratePlan([db EXCEPT !.goals = (db.goals \ {old}) \cup {WithUpdate(old, update)}],
                       goalId, now, FALSE)

\* the two requests run one after the other on the state they arrived in,
\* the one listed first in `order` first
OneAfterTheOther(order) ==
    AfterUpdate(AfterUpdate(last.pre, last.goalId, inflight[order[1]].update, today),
                last.goalId, inflight[order[2]].update, today)

\* C23: when two updates of the same goal are in flight together, the state
\* after both equals the result of running them one after the other in some
\* order: the goal has exactly one plan, every workout belongs to it, the
\* goal's fields are those left by the request handled last and the plan is
\* the one generated from them.
C23_ConcurrentUpdatesSerialize ==
    BothDone =>
        /\ DB \in {OneAfterTheOther(<<1, 2>>), OneAfterTheOther(<<2, 1>>)}
        /\ DB = OneAfterTheOther(last.order)
        /\ Cardinality(PlansOf(DB, last.goalId)) = 1
        /\ \A w \in workouts : \E p \in PlansOf(DB, last.goalId) : w.plan_id = p.id
        /\ \A g \in goals :
              g.id = last.goalId => CalendarOf(DB, g.id) = FreshCalendar(g, today, FALSE)

\* two different updates handled second-arrived first: the state is the one
\* of that order and not of the other
C23_Witness ==
    /\ BothDone
    /\ last.order = <<2, 1>>
    /\ "available_days" \in inflight[2].update.fields
    /\ "max_weekday_time" \in inflight[1].update.fields
    /\ DB = OneAfterTheOther(<<2, 1>>)
    /\ DB # OneAfterTheOther(<<1, 2>>)

\* workout w of the state before the call as it is stored now
Now(w) == CHOOSE x \in workouts : x.id = w.id

\* C24: applyWeeklyAdjustment changes only the duration of workouts that
\* belong to the plan of the active goal, are dated on or after the Monday of
\* the current week and are not completed; it creates and deletes no workout
\* and leaves every other workout, and every other field of every workout,
\* unchanged.
C24_AdjustmentChangesOnlyFutureDurations ==
    Adjusted =>
        /\ {w.id : w \in workouts} = {w.id : w \in last.pre.workouts}
        /\ \A w \in last.pre.workouts :
              /\ [Now(w) EXCEPT !.duration_minutes = w.duration_minutes] = w
              /\ Now(w) # w => w \in Scalable

\* an applied adjustment that changed a duration and left alone a completed
\* workout of the current week and a workout of the week before
C24_Witness ==
    /\ Adjusted /\ last.applied
    /\ \E w \in last.pre.workouts : Now(w) # w
    /\ \E w \in last.pre.workouts :
          w.completed = 1 /\ w.date >= startOfWeek(today) /\ Now(w) = w
    /\ \E w \in last.pre.workouts :
          w.completed = 0 /\ w.date < startOfWeek(today) /\ Now(w) = w

(***************************************************************************)
(* SpecCaps: one goal created, over goals whose ceilings are below, near   *)
(* and above the durations the weekly volume asks for.                     *)
(***************************************************************************)
CapGoalInputs ==
    [race_distance : {"5k", "marathon"}, experience_level : ExperienceLevels,
     current_frequency : {3, 7}, longest_recent_run : {30},
     available_days : {<<"tuesday", "thursday", "saturday", "sunday">>,
                       <<"monday", "wednesday">>, AllWeek},
     max_weekday_time : {20, 60}, max_weekend_time : {30, 90},
     raceIn : {17}]

NextCaps ==
    /\ calls = 0
    /\ \E input \in CapGoalInputs : CreateGoal(input, FALSE)

SpecCaps == Init /\ [][NextCaps]_vars

\* the ceiling of the goal for the weekday a workout is dated on
CeilingOf(goal, w) ==
    IF getDay(w.date) \in {0, 6} THEN goal.max_weekend_time ELSE goal.max_weekday_time

\* C25: immediately after generateTrainingPlan every workout dated on a
\* Saturday or Sunday has a duration of at most the goal's max weekend
\* minutes, every workout dated Monday to Friday of at most its max weekday
\* minutes, and every duration is a non-negative integer.
C25_GeneratedDurationsWithinCeilings ==
    Generated =>
        \A w \in LastPlanWorkouts :
            /\ w.duration_minutes \in Nat
            /\ w.duration_minutes <= CeilingOf(LastGoal, w)

\* a plan with a weekend workout at the weekend ceiling, a weekday workout at
\* the weekday ceiling and a workout below its ceiling
C25_Witness ==
    /\ Generated
    /\ \E w \in LastPlanWorkouts :
          getDay(w.date) \in {0, 6} /\ w.duration_minutes = LastGoal.max_weekend_time
    /\ \E w \in LastPlanWorkouts :
          getDay(w.date) \notin {0, 6} /\ w.duration_minutes = LastGoal.max_weekday_time
    /\ \E w \in LastPlanWorkouts : w.duration_minutes < CeilingOf(LastGoal, w)

\* week weekNumber of a plan of totalWeeks weeks lies in the taper phase:
\* floor(0.85 * totalWeeks) < weekNumber
InTaper(weekNumber, totalWeeks) == weekNumber > (17 * totalWeeks) \div 20

\* C26: in the taper phase the weekly volume does not rise: for every week N
\* with floor(0.85 * totalWeeks) < N <= totalWeeks and N > 1, the volume of
\* week N is at most the volume of week N - 1.
C26_TaperVolumeDoesNotRise ==
    (/\ last.op = "calculateWeeklyVolume"
     /\ last.weekNumber > 1
     /\ InTaper(last.weekNumber, last.totalWeeks))
    => RatLeq(last.result, PreviousVolume)

\* a and b list the same days, each as often
IsPermutation(a, b) ==
    /\ Len(a) = Len(b)
    /\ \A i \in 1..Len(a) :
          Cardinality({j \in 1..Len(a) : a[j] = a[i]}) = Cardinality({j \in 1..Len(b) : b[j] = a[i]})

\* what a calendar shows of a workout's placement
Placement(w) ==
    [date |-> w.date, workout_type |-> w.workout_type, duration_minutes |-> w.duration_minutes,
     is_key_workout |-> w.is_key_workout, is_long_run |-> w.is_long_run]

\* the lists the goals of SpecPlan carry
PlanDayLists == {input.available_days : input \in PlanGoalInputs}

\* generateTrainingPlan places the last goal's workouts as it does for every
\* reordering of the goal's list of days
GenerationIgnoresOrder ==
    \A days \in PlanDayLists :
        IsPermutation(days, LastGoal.available_days) =>
            LET g == [LastGoal EXCEPT !.available_days = days]
                db == generateTrainingPlan([EmptyDB EXCEPT !.goals = {g}], g, today, last.partial)
            IN  {Placement(w) : w \in db.workouts} = {Placement(w) : w \in LastPlanWorkouts}

\* rescheduleWeek places the week's workouts as it does for every reordering
\* of the list of days it was given
RescheduleIgnoresOrder ==
    \A days \in RescheduleLists :
        IsPermutation(days, last.newAvailableDays) =>
            LET db == rescheduleWeek(last.pre, last.planId, last.weekNumber, days)
            IN  {Placement(w) : w \in WeekWorkouts(db, last.planId, last.weekNumber)}
                  = {Placement(w) : w \in WeekWorkouts(DB, last.planId, last.weekNumber)}

\* C27: day placement depends only on the set of permitted weekdays: for two
\* lists that are permutations of each other generateTrainingPlan and
\* rescheduleWeek put the long run and the key workout on the same weekdays
\* and produce the same set of (date, type, duration) workouts.
C27_PlacementIgnoresListOrder ==
    /\ Generated => GenerationIgnoresOrder
    /\ Rescheduled => RescheduleIgnoresOrder

\* the plan row generateTrainingPlan wrote last
LastPlan == CHOOSE p \in plans : p.id = last.planId

\* C28: every workout created by generateTrainingPlan is dated on or after
\* the plan's start date (the day of creation) and on or before its end date
\* (the race date).
C28_WorkoutsWithinPlanDates ==
    Generated =>
        \A w \in LastPlanWorkouts :
            /\ LastPlan.start_date <= w.date
            /\ w.date <= LastPlan.end_date

\* C29: in every state reached by generateTrainingPlan, regeneratePlan,
\* rescheduleWeek and applyWeeklyAdjustment, each workout of the active
\* goal's plan has a duration of at most the goal's max weekend minutes if it
\* is dated on a Saturday or Sunday and of at most its max weekday minutes
\* otherwise.
C29_DurationsStayWithinCeilings ==
    \A g \in goals : \A p \in plans : \A w \in workouts :
        (g.is_active = 1 /\ p.goal_id = g.id /\ w.plan_id = p.id)
        => w.duration_minutes <= CeilingOf(g, w)

\* the workouts of plans whose goal has been deactivated
SupersededWorkouts(db) ==
    {w \in db.workouts : \E p \in db.plans : \E g \in db.goals :
        w.plan_id = p.id /\ p.goal_id = g.id /\ g.is_active = 0}

WithoutSuperseded(db) == [db EXCEPT !.workouts = @ \ SupersededWorkouts(db)]

\* plannedRuns, completedRuns and missedKeyWorkouts of the previous week, or
\* "none" where analyzeWeeklyPerformance returns null
PlanStats(db, now) ==
    IF ~HasStats(db, now) THEN <<"none">>
    ELSE LET stats == analyzeWeeklyPerformance(db, now)
         IN  <<stats.plannedRuns, stats.completedRuns, stats.missedKeyWorkouts>>

\* C30: when check-adjustment runs on a database holding the plan of a
\* superseded (deactivated, not deleted) goal, plannedRuns, completedRuns and
\* missedKeyWorkouts and the classification are the ones the same database
\* without the superseded plan's workouts gives.
C30_SupersededPlanDoesNotCount ==
    (last.op = "applyWeeklyAdjustment" /\ SupersededWorkouts(last.pre) # {})
    => /\ PlanStats(last.pre, today) = PlanStats(WithoutSuperseded(last.pre), today)
       /\ last.type = applyWeeklyAdjustment(WithoutSuperseded(last.pre), today).type

=============================================================================
